---------------------------- MODULE Spec2Model ----------------------------
(***************************************************************************)
(* Technical-indicator and signal-aggregation engine of the stock chatbot. *)
(*                                                                         *)
(* Modelled code:                                                          *)
(*   src/lambda-micro/chatbot-router/ml_agent_lite.py   MLTradingAgent     *)
(*   src/lambda-micro/stock-data/ml_trading_agent.py                       *)
(*                                              LightweightTradingAgent    *)
(*   src/shared/technical_analysis.py   TechnicalAnalyzer.generate_signals *)
(*   src/lambda-micro/stock-data/handler.py   lambda_handler (averages)    *)
(*                                                                         *)
(* Numbers.  A Python float is modelled as an exact rational               *)
(* [isNone, n, d] in lowest terms (d > 0); Python's None is the value None *)
(* below.  +, -, *, / and the comparisons are exact.  Two operations are   *)
(* rounded down to a grid, because their exact value is not a rational     *)
(* with a bounded denominator: math.sqrt (3 to 4 decimals) and the EMA     *)
(* recursion (grid 1/EmaScale).  Prices are whole numbers of the currency  *)
(* unit.  Where a float lands within rounding error of a threshold or of a *)
(* rounding tie, the float and the exact value may fall on different sides.*)
(***************************************************************************)
EXTENDS Integers, Sequences, FiniteSets, TLC

VARIABLES
    prices,   \* the price series handed to the agent (oldest to newest)
    call,     \* the method that was invoked on it and its period argument
    ret,      \* what the method returned (or the exception it raised)
    locals,   \* the method's local variables at its return statement
    agent,    \* an MLTradingAgent instance shared by concurrent invocations
    threads,  \* the invocations of analyze_stock under way on it
    table,    \* the predictions table: prediction_id -> item
    clock,    \* datetime.now(), in whole seconds
    requests  \* the save_prediction requests under way

\* the concurrent invocations of analyze_stock
invocations == <<agent, threads>>

\* the prediction tracker
tracker == <<table, clock, requests>>

vars == <<prices, call, ret, locals, agent, threads, table, clock, requests>>

----------------------------------------------------------------------------
(* Exact rational arithmetic *)

Abs(x) == IF x < 0 THEN -x ELSE x

Min(a, b) == IF a < b THEN a ELSE b

RECURSIVE GCD(_, _)
GCD(a, b) == IF b = 0 THEN a ELSE GCD(b, a % b)

\* Python's None
None == [isNone |-> TRUE, n |-> 0, d |-> 1]

\* the number n/d (d # 0), in lowest terms with a positive denominator
Num(n, d) ==
    LET g == GCD(Abs(n), Abs(d))
        s == IF d < 0 THEN -1 ELSE 1
    IN [isNone |-> FALSE, n |-> s * (n \div g), d |-> s * (d \div g)]

Whole(k) == [isNone |-> FALSE, n |-> k, d |-> 1]

\* Python truthiness of an Optional[float]: None and 0 are both falsy
Truthy(x) == ~x.isNone /\ x.n # 0

RAdd(a, b) ==
    LET l == (a.d \div GCD(a.d, b.d)) * b.d
    IN Num(a.n * (l \div a.d) + b.n * (l \div b.d), l)

RNeg(a) == [isNone |-> FALSE, n |-> -a.n, d |-> a.d]

RSub(a, b) == RAdd(a, RNeg(b))

RMul(a, b) ==
    LET g1 == GCD(Abs(a.n), b.d)
        g2 == GCD(Abs(b.n), a.d)
    IN Num((a.n \div g1) * (b.n \div g2), (a.d \div g2) * (b.d \div g1))

\* a / b for b # 0 (the callers test for a zero divisor first)
RDiv(a, b) == RMul(a, Num(b.d, b.n))

\* a < b and a <= b, compared over the least common denominator
RLt(a, b) ==
    LET g == GCD(a.d, b.d)
    IN a.n * (b.d \div g) < b.n * (a.d \div g)

RLe(a, b) ==
    LET g == GCD(a.d, b.d)
    IN a.n * (b.d \div g) <= b.n * (a.d \div g)

RGt(a, b) == RLt(b, a)

RGe(a, b) == RLe(b, a)

RAbs(a) == [isNone |-> FALSE, n |-> Abs(a.n), d |-> a.d]

\* floor(a * s) for a whole number s > 0, without overflowing on a.n * s
FloorScaled(a, s) ==
    LET q == a.n \div a.d
        r == a.n % a.d
    IN q * s + ((r * s) \div a.d)

\* round(x, 2): the nearest multiple of 1/100, ties to the even neighbour
Round2(a) ==
    LET f    == FloorScaled(a, 100)
        rest == RSub(RMul(a, Whole(100)), Whole(f))      \* in [0, 1)
        half == Num(1, 2)
        up   == \/ RGt(rest, half)
                \/ (rest = half /\ f % 2 = 1)
    IN Num(IF up THEN f + 1 ELSE f, 100)

\* round(x, 1) and the "%.1f" format: the nearest multiple of 1/10
Round1(a) ==
    LET f    == FloorScaled(a, 10)
        rest == RSub(RMul(a, Whole(10)), Whole(f))
        half == Num(1, 2)
        up   == \/ RGt(rest, half)
                \/ (rest = half /\ f % 2 = 1)
    IN Num(IF up THEN f + 1 ELSE f, 10)

RECURSIVE ISqrtIn(_, _, _)
ISqrtIn(m, lo, hi) ==
    IF lo >= hi THEN lo
    ELSE LET mid == (lo + hi + 1) \div 2
         IN IF mid * mid <= m THEN ISqrtIn(m, mid, hi) ELSE ISqrtIn(m, lo, mid - 1)

\* floor of the square root of a whole number m >= 0
ISqrt(m) == ISqrtIn(m, 0, Min(m, 46340))

\* floor(a * 10^digits) for a >= 0, by long division one decimal digit at a time
RECURSIVE LongDiv(_, _, _, _)
LongDiv(q, r, d, digits) ==
    IF digits = 0 THEN q
    ELSE LongDiv(q * 10 + ((r * 10) \div d), (r * 10) % d, d, digits - 1)

FloorDigits(a, digits) == LongDiv(a.n \div a.d, a.n % a.d, a.d, digits)

\* the decimals math.sqrt keeps here: as many (up to 4) as 32-bit whole numbers
\* hold for a value of this size
SqrtDigits(a) ==
    IF RLt(a, Whole(20)) THEN 4
    ELSE IF RLt(a, Whole(2000)) THEN 3
    ELSE IF RLt(a, Whole(200000)) THEN 2
    ELSE 1

Pow10(k) == CASE k = 1 -> 10 [] k = 2 -> 100 [] k = 3 -> 1000 [] OTHER -> 10000

\* math.sqrt(a) for a >= 0, rounded down to SqrtDigits(a) decimals
RSqrt(a) ==
    Num(ISqrt(FloorDigits(a, 2 * SqrtDigits(a))), Pow10(SqrtDigits(a)))

----------------------------------------------------------------------------
(* Python list helpers *)

\* values[-k:] for 0 < k: the last k elements, the whole list when it is shorter
LastN(s, k) == IF Len(s) <= k THEN s ELSE SubSeq(s, Len(s) - k + 1, Len(s))

\* values[:k]
FirstN(s, k) == IF Len(s) <= k THEN s ELSE SubSeq(s, 1, k)

\* values[k:]
DropN(s, k) == IF Len(s) <= k THEN <<>> ELSE SubSeq(s, k + 1, Len(s))

\* values[-k] for 1 <= k <= len(values)
At(s, k) == s[Len(s) - k + 1]

\* s[lo] + ... + s[hi] for a list of rationals, summed by halves
RECURSIVE RSumRange(_, _, _)
RSumRange(s, lo, hi) ==
    IF lo > hi THEN Whole(0)
    ELSE IF lo = hi THEN s[lo]
    ELSE LET mid == (lo + hi) \div 2
         IN RAdd(RSumRange(s, lo, mid), RSumRange(s, mid + 1, hi))

\* sum(values) of a list of rationals
RSum(s) == RSumRange(s, 1, Len(s))

\* a list of whole-number prices as a list of floats
Floats(s) == [i \in 1..Len(s) |-> Whole(s[i])]

----------------------------------------------------------------------------
(* MLTradingAgent: the indicator library *)

\* grid of the EMA recursion: the running value is a multiple of 1/EmaScale
EmaScale == 10000

\* mean(values): sum(values) / len(values), and 0 for the empty list
mean(values) ==
    IF Len(values) = 0 THEN Whole(0)
    ELSE RDiv(RSum(values), Whole(Len(values)))

\* std_dev(values): population standard deviation, 0 below two values
std_dev(values) ==
    IF Len(values) < 2 THEN Whole(0)
    ELSE LET avg      == RDiv(RSum(values), Whole(Len(values)))
             sq       == [i \in 1..Len(values) |->
                             RMul(RSub(values[i], avg), RSub(values[i], avg))]
             variance == RDiv(RSum(sq), Whole(Len(values)))
         IN RSqrt(variance)

\* mutant: the mean of the first period prices (prices[:period])
calculate_sma_of_first(p, period) ==
    IF Len(p) < period THEN None
    ELSE mean(Floats(FirstN(p, period)))

\* calculate_sma(prices, period)
calculate_sma(p, period) ==
    IF Len(p) < period THEN None
    ELSE mean(Floats(LastN(p, period)))

\* the loop of calculate_ema over rest[lo..hi]:
\*     ema = (price - ema) * multiplier + ema,  multiplier = 2 / (period + 1)
\* e is ema * EmaScale; the range is walked in order, first half then second
RECURSIVE EmaLoop(_, _, _, _, _)
EmaLoop(e, rest, lo, hi, period) ==
    IF lo > hi THEN e
    ELSE IF lo = hi
    THEN e + (((rest[lo] * EmaScale - e) * 2) \div (period + 1))
    ELSE LET mid  == (lo + hi) \div 2
             half == EmaLoop(e, rest, lo, mid, period)
         IN IF half = e THEN EmaLoop(e, rest, mid + 1, hi, period)
            ELSE EmaLoop(half, rest, mid + 1, hi, period)

\* mutant: a series of exactly period prices gives None ("<=" for "<")
calculate_ema_off_by_one(p, period) ==
    IF Len(p) <= period THEN None
    ELSE LET seed == FloorScaled(mean(Floats(FirstN(p, period))), EmaScale)
             rest == DropN(p, period)
         IN Num(EmaLoop(seed, rest, 1, Len(rest), period), EmaScale)

\* calculate_ema(prices, period): seeded with the mean of the first period prices
calculate_ema(p, period) ==
    IF Len(p) < period THEN None
    ELSE LET seed == FloorScaled(mean(Floats(FirstN(p, period))), EmaScale)
             rest == DropN(p, period)
         IN Num(EmaLoop(seed, rest, 1, Len(rest), period), EmaScale)

\* gains / losses of calculate_rsi: one entry per day-over-day change
Gains(p) ==
    [i \in 1..(Len(p) - 1) |->
        IF p[i + 1] - p[i] > 0 THEN Whole(p[i + 1] - p[i]) ELSE Whole(0)]

Losses(p) ==
    [i \in 1..(Len(p) - 1) |->
        IF p[i + 1] - p[i] > 0 THEN Whole(0) ELSE Whole(Abs(p[i + 1] - p[i]))]

\* mutant: the averages run over all changes, not the last period of them
calculate_rsi_all_changes(p, period) ==
    IF Len(p) < period + 1 THEN None
    ELSE LET gains    == Gains(p)
             losses   == Losses(p)
             avg_gain == mean(gains)
             avg_loss == mean(losses)
         IN IF Len(gains) < period THEN None
            ELSE IF avg_loss = Whole(0) THEN Whole(100)
            ELSE LET rs == RDiv(avg_gain, avg_loss)
                 IN RSub(Whole(100), RDiv(Whole(100), RAdd(Whole(1), rs)))

\* calculate_rsi(prices, period)
calculate_rsi(p, period) ==
    IF Len(p) < period + 1 THEN None
    ELSE LET gains    == Gains(p)
             losses   == Losses(p)
             avg_gain == mean(LastN(gains, period))
             avg_loss == mean(LastN(losses, period))
         IN IF Len(gains) < period THEN None
            ELSE IF avg_loss = Whole(0) THEN Whole(100)
            ELSE LET rs == RDiv(avg_gain, avg_loss)
                 IN RSub(Whole(100), RDiv(Whole(100), RAdd(Whole(1), rs)))

\* a dict of numbers that may be None as a whole
NoDict == [isNone |-> TRUE]

\* calculate_macd(prices): signal is the 0.9 * macd "approximation"
calculate_macd(p) ==
    IF Len(p) < 26 THEN NoDict
    ELSE LET ema12 == calculate_ema(p, 12)
             ema26 == calculate_ema(p, 26)
         IN IF ema12.isNone \/ ema26.isNone THEN NoDict
            ELSE LET macd   == RSub(ema12, ema26)
                     signal == RMul(macd, Num(9, 10))
                 IN [isNone |-> FALSE, macd |-> macd, signal |-> signal,
                     histogram |-> RSub(macd, signal)]

\* calculate_bollinger_bands(prices, period)
calculate_bollinger_bands(p, period) ==
    IF Len(p) < period THEN NoDict
    ELSE LET sma == calculate_sma(p, period)
             std == std_dev(Floats(LastN(p, period)))
         IN [isNone |-> FALSE,
             upper  |-> RAdd(sma, RMul(Whole(2), std)),
             middle |-> sma,
             lower  |-> RSub(sma, RMul(Whole(2), std))]

----------------------------------------------------------------------------
(* MLTradingAgent: risk classification and rationale *)

\* _assess_risk(volatility_pct, rsi); "rsi and (...)" tests rsi for truthiness
assess_risk(volatility_pct, rsi) ==
    IF RGt(volatility_pct, Whole(5))
       \/ (Truthy(rsi) /\ (RLt(rsi, Whole(25)) \/ RGt(rsi, Whole(75))))
    THEN "HIGH"
    ELSE IF RGt(volatility_pct, Whole(3))
            \/ (Truthy(rsi) /\ (RLt(rsi, Whole(35)) \/ RGt(rsi, Whole(65))))
    THEN "MEDIUM"
    ELSE "LOW"

\* one clause of the reasoning string: its rule, its wording and the number it
\* prints with one decimal (None when it prints none)
Clause(rule, text, shown) == [rule |-> rule, text |-> text, shown |-> shown]

\* _generate_reasoning(...): the clauses that " | ".join(reasons) joins, in order
generate_reasoning(rsi, sma20, sma50, macd_data, bb, price, momentum) ==
    LET r1 == IF Truthy(rsi)
              THEN IF RLt(rsi, Whole(30))
                   THEN <<Clause("rsi", "RSI oversold", Round1(rsi))>>
                   ELSE IF RGt(rsi, Whole(70))
                   THEN <<Clause("rsi", "RSI overbought", Round1(rsi))>>
                   ELSE <<Clause("rsi", "RSI neutral", Round1(rsi))>>
              ELSE <<>>
        r2 == IF Truthy(sma20) /\ Truthy(sma50)
              THEN IF RGt(sma20, sma50)
                   THEN <<Clause("ma", "Bullish MA trend", None)>>
                   ELSE <<Clause("ma", "Bearish MA trend", None)>>
              ELSE <<>>
        r3 == IF ~macd_data.isNone
              THEN IF RGt(macd_data.histogram, Whole(0))
                   THEN <<Clause("macd", "MACD bullish", None)>>
                   ELSE <<Clause("macd", "MACD bearish", None)>>
              ELSE <<>>
        r4 == IF ~bb.isNone /\ Truthy(price)
              THEN IF RLt(price, bb.lower)
                   THEN <<Clause("bb", "Price below lower BB", None)>>
                   ELSE IF RGt(price, bb.upper)
                   THEN <<Clause("bb", "Price above upper BB", None)>>
                   ELSE <<>>
              ELSE <<>>
        r5 == IF RGt(RAbs(momentum), Whole(5))
              THEN IF RGt(momentum, Whole(0))
                   THEN <<Clause("momentum", "Strong momentum up", None)>>
                   ELSE <<Clause("momentum", "Strong momentum down", None)>>
              ELSE <<>>
    IN r1 \o r2 \o r3 \o r4 \o r5

----------------------------------------------------------------------------
(* MLTradingAgent.analyze_stock *)

\* minimum history analyze_stock accepts
MinHistory == 50

\* one appended signal: signals.append(sig); confidences.append(conf)
Emit(sig, conf) == <<[signal |-> sig, confidence |-> conf]>>

\* Signal 1 holding over the whole range between the buy and the sell level
RsiRule_hold_between(rsi) ==
    IF rsi.isNone THEN <<>>
    ELSE IF RLt(rsi, Whole(30)) THEN Emit("buy", Num(85, 100))
    ELSE IF RGt(rsi, Whole(70)) THEN Emit("sell", Num(85, 100))
    ELSE Emit("hold", Num(6, 10))

\* Signal 1: RSI strategy
RsiRule(rsi) ==
    IF rsi.isNone THEN <<>>
    ELSE IF RLt(rsi, Whole(30)) THEN Emit("buy", Num(85, 100))
    ELSE IF RGt(rsi, Whole(70)) THEN Emit("sell", Num(85, 100))
    ELSE IF RLe(Whole(40), rsi) /\ RLe(rsi, Whole(60)) THEN Emit("hold", Num(6, 10))
    ELSE <<>>

\* Signal 2: moving average crossover (2% above / below)
MaCrossRule(sma20, sma50) ==
    IF Truthy(sma20) /\ Truthy(sma50)
    THEN IF RGt(sma20, RMul(sma50, Num(102, 100))) THEN Emit("buy", Num(75, 100))
         ELSE IF RLt(sma20, RMul(sma50, Num(98, 100))) THEN Emit("sell", Num(75, 100))
         ELSE <<>>
    ELSE <<>>

\* Signal 3: SMA50 against SMA200
LongTrendRule(sma50, sma200) ==
    IF Truthy(sma50) /\ Truthy(sma200)
    THEN IF RGt(sma50, sma200) THEN Emit("buy", Num(70, 100))
         ELSE Emit("sell", Num(70, 100))
    ELSE <<>>

\* Signal 4 with the comparison turned round
MacdRule_reversed(macd_data) ==
    IF macd_data.isNone THEN <<>>
    ELSE IF RLt(macd_data.macd, macd_data.signal) THEN Emit("buy", Num(70, 100))
    ELSE Emit("sell", Num(70, 100))

\* Signal 4: MACD against its signal line
MacdRule(macd_data) ==
    IF macd_data.isNone THEN <<>>
    ELSE IF RGt(macd_data.macd, macd_data.signal) THEN Emit("buy", Num(70, 100))
    ELSE Emit("sell", Num(70, 100))

\* Signal 5: Bollinger bands
BollingerRule(bb, current_price) ==
    IF bb.isNone THEN <<>>
    ELSE IF RLt(current_price, bb.lower) THEN Emit("buy", Num(80, 100))
    ELSE IF RGt(current_price, bb.upper) THEN Emit("sell", Num(80, 100))
    ELSE <<>>

\* Signal 6 with a confidence below the others
MomentumRule_faint(momentum_10) ==
    IF RGt(momentum_10, Whole(5)) THEN Emit("buy", Num(45, 100))
    ELSE IF RLt(momentum_10, Whole(-5)) THEN Emit("sell", Num(45, 100))
    ELSE <<>>

\* Signal 6: 10-day momentum
MomentumRule(momentum_10) ==
    IF RGt(momentum_10, Whole(5)) THEN Emit("buy", Num(65, 100))
    ELSE IF RLt(momentum_10, Whole(-5)) THEN Emit("sell", Num(65, 100))
    ELSE <<>>

\* signals.count(sig)
Count(emitted, sig) == Cardinality({i \in 1..Len(emitted) : emitted[i].signal = sig})

\* [conf for sig, conf in zip(signals, confidences) if sig == dir]
RECURSIVE ConfidencesOf(_, _)
ConfidencesOf(emitted, dir) ==
    IF Len(emitted) = 0 THEN <<>>
    ELSE (IF emitted[1].signal = dir THEN <<emitted[1].confidence>> ELSE <<>>)
         \o ConfidencesOf(Tail(emitted), dir)

\* (prices[-1] - prices[-k]) / prices[-k] * 100 for prices[-k] # 0
Momentum(p, k) ==
    RMul(RDiv(Whole(At(p, 1) - At(p, k)), Whole(At(p, k))), Whole(100))

\* (volatility / current_price) * 100 for current_price # 0
VolatilityPct(volatility, current_price) ==
    RMul(RDiv(volatility, current_price), Whole(100))

\* "Calculate all indicators", momentum and volatility: the locals they set
Indicators(p) ==
    [isNone         |-> FALSE,
     current_price  |-> Whole(At(p, 1)),
     sma20          |-> calculate_sma(p, 20),
     sma50          |-> calculate_sma(p, 50),
     sma200         |-> IF Len(p) >= 200 THEN calculate_sma(p, 200) ELSE None,
     rsi            |-> calculate_rsi(p, 14),
     macd_data      |-> calculate_macd(p),
     bb             |-> calculate_bollinger_bands(p, 20),
     momentum_10    |-> IF Len(p) >= 10 THEN Momentum(p, 10) ELSE Whole(0),
     momentum_20    |-> IF Len(p) >= 20 THEN Momentum(p, 20) ELSE Whole(0),
     volatility_pct |-> VolatilityPct(std_dev(Floats(LastN(p, 20))), Whole(At(p, 1)))]

\* "Generate signals with confidence scores": the six rules in order
GenerateSignals(I) ==
    RsiRule(I.rsi) \o MaCrossRule(I.sma20, I.sma50)
    \o LongTrendRule(I.sma50, I.sma200) \o MacdRule(I.macd_data)
    \o BollingerRule(I.bb, I.current_price) \o MomentumRule(I.momentum_10)

\* "Aggregate signals using weighted voting": counts and mean confidences
Votes(emitted) ==
    [signals         |-> [i \in 1..Len(emitted) |-> emitted[i].signal],
     confidences     |-> [i \in 1..Len(emitted) |-> emitted[i].confidence],
     buy_count       |-> Count(emitted, "buy"),
     sell_count      |-> Count(emitted, "sell"),
     hold_count      |-> Count(emitted, "hold"),
     buy_confidence  |-> IF Count(emitted, "buy") > 0
                         THEN mean(ConfidencesOf(emitted, "buy")) ELSE Whole(0),
     sell_confidence |-> IF Count(emitted, "sell") > 0
                         THEN mean(ConfidencesOf(emitted, "sell")) ELSE Whole(0)]

\* mutant: a tie of buy against sell counts goes to buy
Decide_tie_buys(V) ==
    IF V.buy_count >= V.sell_count /\ V.buy_count > V.hold_count
    THEN [recommendation |-> "buy", confidence |-> V.buy_confidence]
    ELSE IF V.sell_count > V.buy_count /\ V.sell_count > V.hold_count
    THEN [recommendation |-> "sell", confidence |-> V.sell_confidence]
    ELSE [recommendation |-> "hold", confidence |-> Num(1, 2)]

\* "Determine final recommendation"
Decide(V) ==
    IF V.buy_count > V.sell_count /\ V.buy_count > V.hold_count
    THEN [recommendation |-> "buy", confidence |-> V.buy_confidence]
    ELSE IF V.sell_count > V.buy_count /\ V.sell_count > V.hold_count
    THEN [recommendation |-> "sell", confidence |-> V.sell_confidence]
    ELSE [recommendation |-> "hold", confidence |-> Num(1, 2)]

WithVotes(I) == I @@ Votes(GenerateSignals(I))

WithDecision(L) == L @@ Decide(L)

\* the local variables of analyze_stock at its return statement, for a series
\* of at least MinHistory prices on which no division raises
AnalyzeLocals(p) == WithDecision(WithVotes(Indicators(p)))

\* the frame of a call that returned early or raised: no locals to show
NoLocals == [isNone |-> TRUE]

\* a division of analyze_stock has a zero divisor: prices[-10], prices[-20] or
\* current_price is 0, and Python raises ZeroDivisionError
DividesByZero(p) ==
    \/ (Len(p) >= 10 /\ At(p, 10) = 0)
    \/ (Len(p) >= 20 /\ At(p, 20) = 0)
    \/ At(p, 1) = 0

\* mutant: the recommendation is not upper-cased
Upper_unchanged(rec) == rec

\* recommendation.upper()
Upper(rec) ==
    CASE rec = "buy" -> "BUY" [] rec = "sell" -> "SELL" [] OTHER -> "HOLD"

\* the dict analyze_stock returns from the locals L
Recommendation(symbol, L) ==
    [symbol         |-> symbol,
     recommendation |-> Upper(L.recommendation),
     confidence     |-> Round2(L.confidence),
     ml_score       |-> Round1(RMul(L.confidence, Whole(100))),
     signals        |-> [buy |-> L.buy_count, sell |-> L.sell_count,
                         hold |-> L.hold_count, total |-> Len(L.signals)],
     indicators     |-> [rsi     |-> IF Truthy(L.rsi) THEN Round2(L.rsi) ELSE None,
                         sma_20  |-> IF Truthy(L.sma20) THEN Round2(L.sma20) ELSE None,
                         sma_50  |-> IF Truthy(L.sma50) THEN Round2(L.sma50) ELSE None,
                         macd    |-> IF ~L.macd_data.isNone
                                     THEN Round2(L.macd_data.macd) ELSE None,
                         momentum_10d   |-> Round2(L.momentum_10),
                         volatility_pct |-> Round2(L.volatility_pct)],
     reasoning      |-> generate_reasoning(L.rsi, L.sma20, L.sma50, L.macd_data,
                                           L.bb, L.current_price, L.momentum_10),
     risk_level     |-> assess_risk(L.volatility_pct, L.rsi)]

\* the early return of analyze_stock for a short series
InsufficientData ==
    [error |-> "Need at least 50 days of price data",
     recommendation |-> "hold", confidence |-> Whole(0)]

\* an exception that left the method
Raised(exc) == [raised |-> exc]

\* the return statement of analyze_stock, reached with the locals L
Returned(symbol, L) == [ret |-> Recommendation(symbol, L), locals |-> L]

\* mutant: the length test is off by one ("<=" for "<")
analyze_stock_off_by_one(symbol, p) ==
    IF Len(p) <= MinHistory
    THEN [ret |-> InsufficientData, locals |-> NoLocals]
    ELSE IF DividesByZero(p)
    THEN [ret |-> Raised("ZeroDivisionError"), locals |-> NoLocals]
    ELSE Returned(symbol, AnalyzeLocals(p))

\* analyze_stock(prices): [ret |-> what it returns or raises, locals |-> its frame]
analyze_stock(symbol, p) ==
    IF Len(p) < MinHistory
    THEN [ret |-> InsufficientData, locals |-> NoLocals]
    ELSE IF DividesByZero(p)
    THEN [ret |-> Raised("ZeroDivisionError"), locals |-> NoLocals]
    ELSE Returned(symbol, AnalyzeLocals(p))

----------------------------------------------------------------------------
(* LightweightTradingAgent (src/lambda-micro/stock-data/ml_trading_agent.py) *)

\* the loop of _ema over values[lo..hi]; e is ema * EmaScale
RECURSIVE LwEmaLoop(_, _, _, _, _)
LwEmaLoop(e, values, lo, hi, period) ==
    IF lo > hi THEN e
    ELSE IF lo = hi
    THEN e + (((FloorScaled(values[lo], EmaScale) - e) * 2) \div (period + 1))
    ELSE LET mid  == (lo + hi) \div 2
             half == LwEmaLoop(e, values, lo, mid, period)
         IN IF half = e THEN LwEmaLoop(e, values, mid + 1, hi, period)
            ELSE LwEmaLoop(half, values, mid + 1, hi, period)

\* _ema(prices, period): the plain mean below period values, never None
LwEma(values, period) ==
    IF Len(values) < period THEN mean(values)
    ELSE LET seed == FloorScaled(mean(FirstN(values, period)), EmaScale)
         IN Num(LwEmaLoop(seed, values, period + 1, Len(values), period), EmaScale)

\* _calculate_rsi(prices, period): np.diff, np.where, np.mean of the last period
LwCalculateRsi(p, period) ==
    IF Len(p) < period + 1 THEN None
    ELSE LET avg_gain == mean(LastN(Gains(p), period))
             avg_loss == mean(LastN(Losses(p), period))
         IN IF avg_loss = Whole(0) THEN Whole(100)
            ELSE RSub(Whole(100),
                      RDiv(Whole(100), RAdd(Whole(1), RDiv(avg_gain, avg_loss))))

\* [macd] * signal_period
Copies(x, k) == [i \in 1..k |-> x]

\* np.mean of the nine copies of macd = ema_fast - ema_slow is a float sum
\* divided by 9.  macd is a multiple of the last bit of the smaller average, so
\* while 9 * |macd| is at most that average every partial sum is exact and the
\* mean is macd itself; beyond that the sum and the quotient are rounded, and
\* the mean is macd or one of its two neighbours, by bits of macd that the
\* grid does not hold.  The roundings, in steps of the grid:
MeanRoundings(ema_fast, ema_slow) ==
    IF /\ RLe(RMul(Whole(9), RAbs(RSub(ema_fast, ema_slow))), ema_fast)
       /\ RLe(RMul(Whole(9), RAbs(RSub(ema_fast, ema_slow))), ema_slow)
    THEN {0}
    ELSE {-1, 0, 1}

\* the roundings _calculate_macd(prices) can meet
LwRoundings(p) ==
    IF Len(p) < 26 THEN {0}
    ELSE MeanRoundings(LwEma(Floats(p), 12), LwEma(Floats(p), 26))

LwSignalLine_from_zero(macd, signal_period, r) ==
    RMul(Num(2, signal_period + 1), macd)

\* the signal line: _ema(np.array([macd] * signal_period), signal_period), its
\* mean rounded by r steps
LwSignalLine(macd, signal_period, r) ==
    RAdd(LwEma(Copies(macd, signal_period), signal_period), Num(r, EmaScale))

\* _calculate_macd(prices, fast, slow, signal_period): the pair (macd, signal)
LwCalculateMacd(p, fast, slow, signal_period, r) ==
    IF Len(p) < slow THEN [macd |-> None, signal |-> None]
    ELSE [macd   |-> RSub(LwEma(Floats(p), fast), LwEma(Floats(p), slow)),
          signal |-> LwSignalLine(RSub(LwEma(Floats(p), fast), LwEma(Floats(p), slow)),
                                  signal_period, r)]

\* np.std(values): population standard deviation
NpStd(values) == std_dev(values)

\* the dict of calculate_technical_indicators from its MACD pair M, for a
\* series of at least 50 prices with prices[-10] # 0
LwIndicatorsWith(p, M) ==
    [isNone        |-> FALSE,
     ma20          |-> mean(Floats(LastN(p, 20))),
     ma50          |-> mean(Floats(LastN(p, 50))),
     rsi           |-> LwCalculateRsi(p, 14),
     macd          |-> M.macd,
     macd_signal   |-> M.signal,
     volatility    |-> NpStd(Floats(LastN(p, 20))),
     momentum      |-> RDiv(Whole(At(p, 1) - At(p, 10)), Whole(At(p, 10))),
     current_price |-> Whole(At(p, 1))]

\* calculate_technical_indicators(prices)
calculate_technical_indicators(p, r) ==
    IF Len(p) < 50 THEN NoDict
    ELSE LwIndicatorsWith(p, LwCalculateMacd(p, 12, 26, 9, r))

\* the four signal rules of generate_ml_signals, in order
LwGenerateSignals(I) ==
    (IF I.rsi.isNone THEN <<>>
     ELSE IF RLt(I.rsi, Whole(30)) THEN Emit("buy", Num(8, 10))
     ELSE IF RGt(I.rsi, Whole(70)) THEN Emit("sell", Num(8, 10))
     ELSE <<>>)
    \o (IF Truthy(I.ma20) /\ Truthy(I.ma50)
        THEN IF RGt(I.ma20, I.ma50) THEN Emit("buy", Num(6, 10))
             ELSE IF RLt(I.ma20, I.ma50) THEN Emit("sell", Num(6, 10))
             ELSE <<>>
        ELSE <<>>)
    \o (IF ~I.macd.isNone /\ ~I.macd_signal.isNone
        THEN IF RGt(I.macd, I.macd_signal) THEN Emit("buy", Num(7, 10))
             ELSE Emit("sell", Num(7, 10))
        ELSE <<>>)
    \o (IF RGt(I.momentum, Num(2, 100)) THEN Emit("buy", Num(5, 10))
        ELSE IF RLt(I.momentum, Num(-2, 100)) THEN Emit("sell", Num(5, 10))
        ELSE <<>>)

\* "Aggregate signals" of generate_ml_signals
LwAggregate(emitted) ==
    [signals           |-> [i \in 1..Len(emitted) |-> emitted[i].signal],
     confidence_scores |-> [i \in 1..Len(emitted) |-> emitted[i].confidence],
     buy_count         |-> Count(emitted, "buy"),
     sell_count        |-> Count(emitted, "sell"),
     recommendation    |-> IF Count(emitted, "buy") > Count(emitted, "sell") THEN "buy"
                           ELSE IF Count(emitted, "sell") > Count(emitted, "buy")
                           THEN "sell" ELSE "hold",
     confidence        |-> IF Count(emitted, "buy") > Count(emitted, "sell")
                           THEN mean(ConfidencesOf(emitted, "buy"))
                           ELSE IF Count(emitted, "sell") > Count(emitted, "buy")
                           THEN mean(ConfidencesOf(emitted, "sell"))
                           ELSE Num(1, 2)]

\* _generate_reasoning(indicators, recommendation) of the lightweight agent
LwGenerateReasoning(I) ==
    (IF I.rsi.isNone THEN <<>>
     ELSE IF RLt(I.rsi, Whole(30))
     THEN <<Clause("rsi", "RSI is oversold", Round1(I.rsi))>>
     ELSE IF RGt(I.rsi, Whole(70))
     THEN <<Clause("rsi", "RSI is overbought", Round1(I.rsi))>>
     ELSE <<Clause("rsi", "RSI is neutral", Round1(I.rsi))>>)
    \o (IF Truthy(I.ma20) /\ Truthy(I.ma50)
        THEN IF RGt(I.ma20, I.ma50)
             THEN <<Clause("ma", "20-day MA is above 50-day MA (bullish)", None)>>
             ELSE <<Clause("ma", "20-day MA is below 50-day MA (bearish)", None)>>
        ELSE <<>>)
    \o (IF ~I.macd.isNone /\ ~I.macd_signal.isNone
        THEN IF RGt(I.macd, I.macd_signal)
             THEN <<Clause("macd", "MACD is above signal line (bullish)", None)>>
             ELSE <<Clause("macd", "MACD is below signal line (bearish)", None)>>
        ELSE <<>>)
    \o (IF Truthy(I.volatility)
        THEN IF RGt(VolatilityPct(I.volatility, I.current_price), Whole(5))
             THEN <<Clause("volatility", "High volatility",
                           Round1(VolatilityPct(I.volatility, I.current_price)))>>
             ELSE <<Clause("volatility", "Low volatility",
                           Round1(VolatilityPct(I.volatility, I.current_price)))>>
        ELSE <<>>)

\* int(x) for x >= 0
Trunc(x) == x.n \div x.d

\* shares of calculate_position_size: by risk, capped at 20% of the portfolio
PositionShares(portfolio_value, current_price) ==
    Min(IF RGt(RMul(current_price, Num(5, 100)), Whole(0))
        THEN Trunc(RDiv(RMul(Whole(portfolio_value), Num(2, 100)),
                        RMul(current_price, Num(5, 100))))
        ELSE 0,
        Trunc(RDiv(RMul(Whole(portfolio_value), Num(20, 100)), current_price)))

\* calculate_position_size(portfolio_value, current_price, risk_percent = 0.02)
calculate_position_size(portfolio_value, current_price) ==
    [shares            |-> PositionShares(portfolio_value, current_price),
     position_value    |-> RMul(Whole(PositionShares(portfolio_value, current_price)),
                                current_price),
     stop_loss         |-> RMul(current_price, Num(95, 100)),
     take_profit       |-> RMul(current_price, Num(110, 100)),
     risk_reward_ratio |-> Whole(2)]

\* the locals of generate_ml_signals joined to the indicators
LwLocals(I) == I @@ LwAggregate(LwGenerateSignals(I))

\* the dict analyze returns from the locals L
LwReturned(symbol, L) ==
    [ret    |-> [symbol         |-> symbol,
                 recommendation |-> L.recommendation,
                 confidence     |-> L.confidence,
                 reasoning      |-> LwGenerateReasoning(L),
                 indicators     |-> [rsi |-> L.rsi, ma20 |-> L.ma20, ma50 |-> L.ma50,
                                     macd |-> L.macd, volatility |-> L.volatility,
                                     momentum |-> L.momentum],
                 signals_breakdown |-> [buy_signals   |-> L.buy_count,
                                        sell_signals  |-> L.sell_count,
                                        total_signals |-> Len(L.signals)],
                 position_sizing   |-> calculate_position_size(100000, L.current_price),
                 current_price     |-> L.current_price],
     locals |-> L]

LwInsufficientData ==
    [error |-> "Insufficient historical data (need at least 50 days)",
     recommendation |-> "hold", confidence |-> Whole(0)]

\* analyze(price_history, portfolio_value = 100000)
analyze(symbol, p, r) ==
    IF Len(p) < 50
    THEN [ret |-> LwInsufficientData, locals |-> NoLocals]
    ELSE LwReturned(symbol, LwLocals(calculate_technical_indicators(p, r)))

\* generate_ml_signals(indicators): the dict it returns
generate_ml_signals(I) ==
    [recommendation    |-> LwLocals(I).recommendation,
     confidence        |-> LwLocals(I).confidence,
     signals_breakdown |-> [buy_signals   |-> LwLocals(I).buy_count,
                            sell_signals  |-> LwLocals(I).sell_count,
                            total_signals |-> Len(LwLocals(I).signals)],
     reasoning         |-> LwGenerateReasoning(I)]

----------------------------------------------------------------------------
(* TechnicalAnalyzer (src/shared/technical_analysis.py) on the 'Close' column *)

\* float nan: every comparison with it is False
NaN == [isNone |-> TRUE, n |-> 0, d |-> 0]

\* a > b, a < b, a <= b, a >= b on floats that may be nan
FGt(a, b) == ~a.isNone /\ ~b.isNone /\ RGt(a, b)

FLt(a, b) == ~a.isNone /\ ~b.isNone /\ RLt(a, b)

FLe(a, b) == ~a.isNone /\ ~b.isNone /\ RLe(a, b)

FGe(a, b) == ~a.isNone /\ ~b.isNone /\ RGe(a, b)

\* calculate_sma(period).iloc[-k]: rolling(window=period).mean(), nan until
\* the window is full
SmaAt(p, period, k) ==
    IF Len(p) - k + 1 < period THEN NaN
    ELSE RDiv(RSumRange(Floats(p), Len(p) - k - period + 2, Len(p) - k + 1),
              Whole(period))

\* rolling(window=period).std().iloc[-1]: pandas' rolling std is the sample
\* standard deviation (ddof = 1, the squares are divided by period - 1), nan
\* until the window is full
TaRollingStd(p, period) ==
    IF Len(p) < period THEN NaN
    ELSE LET values == Floats(LastN(p, period))
             avg    == RDiv(RSum(values), Whole(period))
             sq     == [i \in 1..period |->
                           RMul(RSub(values[i], avg), RSub(values[i], avg))]
         IN RSqrt(RDiv(RSum(sq), Whole(period - 1)))

\* calculate_bollinger_bands(): the last row of (upper_band, middle_band,
\* lower_band), with period = 20 and std_dev = 2
TaBollingerBands(p) ==
    IF Len(p) < 20 THEN [isNone |-> TRUE, upper |-> NaN, middle |-> NaN, lower |-> NaN]
    ELSE [isNone |-> FALSE,
          upper  |-> RAdd(SmaAt(p, 20, 1), RMul(TaRollingStd(p, 20), Whole(2))),
          middle |-> SmaAt(p, 20, 1),
          lower  |-> RSub(SmaAt(p, 20, 1), RMul(TaRollingStd(p, 20), Whole(2)))]

\* calculate_rsi().iloc[-1] for more than period rows: gain / loss is inf when
\* only loss is 0 (RSI 100) and nan when both are 0
TaRsi(p, period) ==
    LET gain == mean(LastN(Gains(p), period))
        loss == mean(LastN(Losses(p), period))
    IN IF loss = Whole(0)
       THEN IF gain = Whole(0) THEN NaN ELSE Whole(100)
       ELSE RSub(Whole(100), RDiv(Whole(100), RAdd(Whole(1), RDiv(gain, loss))))

\* ewm(span, adjust=False).mean() of calculate_macd, one row further: the
\* 12- and 26-span averages of the close x and the 9-span average of their
\* difference, each times EmaScale
TaMacdStep(st, x) ==
    [fast   |-> st.fast + (((x * EmaScale - st.fast) * 2) \div (12 + 1)),
     slow   |-> st.slow + (((x * EmaScale - st.slow) * 2) \div (26 + 1)),
     signal |-> st.signal
                + ((((st.fast + (((x * EmaScale - st.fast) * 2) \div (12 + 1)))
                     - (st.slow + (((x * EmaScale - st.slow) * 2) \div (26 + 1)))
                     - st.signal) * 2) \div (9 + 1))]

\* the rows lo..hi in order, first half then second
RECURSIVE TaMacdLoop(_, _, _, _)
TaMacdLoop(st, p, lo, hi) ==
    IF lo > hi THEN st
    ELSE IF lo = hi THEN TaMacdStep(st, p[lo])
    ELSE LET mid  == (lo + hi) \div 2
             half == TaMacdLoop(st, p, lo, mid)
         IN IF half = st THEN TaMacdLoop(st, p, mid + 1, hi)
            ELSE TaMacdLoop(half, p, mid + 1, hi)

\* (macd_line.iloc[-k], signal_line.iloc[-k]): the averages start at the first
\* close, so the first MACD and signal values are 0
TaMacdAt(p, k) ==
    LET st == TaMacdLoop([fast |-> p[1] * EmaScale, slow |-> p[1] * EmaScale,
                          signal |-> 0], p, 2, Len(p) - k + 1)
    IN [macd |-> Num(st.fast - st.slow, EmaScale), signal |-> Num(st.signal, EmaScale)]

\* get_trend_direction(short_period = 50, long_period = 200)
get_trend_direction(p) ==
    IF Len(p) < 200 THEN "insufficient_data"
    ELSE IF SmaAt(p, 50, 1).isNone \/ SmaAt(p, 200, 1).isNone THEN "neutral"
    ELSE IF RGt(SmaAt(p, 50, 1), SmaAt(p, 200, 1)) THEN "bullish"
    ELSE IF RLt(SmaAt(p, 50, 1), SmaAt(p, 200, 1)) THEN "bearish"
    ELSE "neutral"

\* check_golden_cross() taking a 200-day average that is not there yet for one
\* the 50-day average is not above
check_golden_cross_from_nothing(p) ==
    /\ Len(p) >= 200
    /\ \E i \in 1..(Min(6, Len(p)) - 1) :
          /\ FGt(SmaAt(p, 50, i), SmaAt(p, 200, i))
          /\ ~FGt(SmaAt(p, 50, i + 1), SmaAt(p, 200, i + 1))

\* check_golden_cross(): the 50-day average crossed above the 200-day one in
\* the last 5 rows
check_golden_cross(p) ==
    /\ Len(p) >= 200
    /\ \E i \in 1..(Min(6, Len(p)) - 1) :
          /\ FGt(SmaAt(p, 50, i), SmaAt(p, 200, i))
          /\ FLe(SmaAt(p, 50, i + 1), SmaAt(p, 200, i + 1))

\* check_death_cross() looking back 4 rows only
check_death_cross_four_days(p) ==
    /\ Len(p) >= 200
    /\ \E i \in 1..(Min(5, Len(p)) - 1) :
          /\ FLt(SmaAt(p, 50, i), SmaAt(p, 200, i))
          /\ FGe(SmaAt(p, 50, i + 1), SmaAt(p, 200, i + 1))

\* check_death_cross()
check_death_cross(p) ==
    /\ Len(p) >= 200
    /\ \E i \in 1..(Min(6, Len(p)) - 1) :
          /\ FLt(SmaAt(p, 50, i), SmaAt(p, 200, i))
          /\ FGe(SmaAt(p, 50, i + 1), SmaAt(p, 200, i + 1))

\* the four analyses of generate_signals, in order
TaEmitted(current_rsi, last, before, trend, golden, death) ==
    (IF FLt(current_rsi, Whole(30)) THEN Emit("buy", Num(7, 10))
     ELSE IF FGt(current_rsi, Whole(70)) THEN Emit("sell", Num(7, 10))
     ELSE Emit("hold", Num(3, 10)))
    \o (IF RGt(last.macd, last.signal) /\ RLe(before.macd, before.signal)
        THEN Emit("buy", Num(6, 10))
        ELSE IF RLt(last.macd, last.signal) /\ RGe(before.macd, before.signal)
        THEN Emit("sell", Num(6, 10))
        ELSE <<>>)
    \o (IF trend = "bullish" THEN Emit("buy", Num(5, 10))
        ELSE IF trend = "bearish" THEN Emit("sell", Num(5, 10))
        ELSE <<>>)
    \o (IF golden THEN Emit("buy", Num(9, 10))
        ELSE IF death THEN Emit("sell", Num(9, 10))
        ELSE <<>>)

\* "Aggregate signals" of generate_signals: its locals
TaAggregate(emitted) ==
    [isNone            |-> FALSE,
     signals           |-> [i \in 1..Len(emitted) |-> emitted[i].signal],
     confidence_scores |-> [i \in 1..Len(emitted) |-> emitted[i].confidence],
     buy_count         |-> Count(emitted, "buy"),
     sell_count        |-> Count(emitted, "sell"),
     hold_count        |-> Count(emitted, "hold"),
     final_signal      |-> IF Count(emitted, "buy") > Count(emitted, "sell") THEN "buy"
                           ELSE IF Count(emitted, "sell") > Count(emitted, "buy")
                           THEN "sell" ELSE "hold",
     avg_confidence    |-> IF Len(emitted) > 0
                           THEN mean([i \in 1..Len(emitted) |-> emitted[i].confidence])
                           ELSE Num(1, 2)]

\* the dict generate_signals returns from its locals L
TaReturned(L, current_rsi, trend, golden, death) ==
    [ret    |-> [signal       |-> L.final_signal,
                 confidence   |-> L.avg_confidence,
                 rsi          |-> current_rsi,
                 trend        |-> trend,
                 golden_cross |-> golden,
                 death_cross  |-> death,
                 indicators   |-> [buy_signals  |-> L.buy_count,
                                   sell_signals |-> L.sell_count,
                                   hold_signals |-> L.hold_count]],
     locals |-> L]

\* generate_signals()
generate_signals(p) ==
    IF Len(p) < 200
    THEN [ret    |-> [error |-> "Insufficient data for analysis (need at least 200 days)"],
          locals |-> NoLocals]
    ELSE TaReturned(TaAggregate(TaEmitted(TaRsi(p, 14), TaMacdAt(p, 1), TaMacdAt(p, 2),
                                          get_trend_direction(p),
                                          check_golden_cross(p), check_death_cross(p))),
                    TaRsi(p, 14), get_trend_direction(p),
                    check_golden_cross(p), check_death_cross(p))

----------------------------------------------------------------------------
(* lambda_handler of the stock-data service (src/lambda-micro/stock-data/handler.py) *)

\* the moving averages of the response body, from the closes of the chart and
\* the quoted price
lambda_handler(chart_closes, current_price) ==
    [price  |-> current_price,
     sma_20 |-> IF Len(LastN(chart_closes, 90)) >= 20
                THEN RDiv(RSum(Floats(LastN(LastN(chart_closes, 90), 20))), Whole(20))
                ELSE current_price,
     sma_50 |-> IF Len(LastN(chart_closes, 90)) >= 50
                THEN RDiv(RSum(Floats(LastN(LastN(chart_closes, 90), 50))), Whole(50))
                ELSE current_price]

----------------------------------------------------------------------------
(* The callers' inputs *)

\* largest day-over-day step of a generated series
MaxStep == 3

\* lengths 0..MaxShortLen are generated besides those around the lookbacks
MaxShortLen == 3

\* lengths up to Slack past each lookback are generated
Slack == 1

\* first price of a generated series
BasePrice == 400

\* jump of the last price of a generated series
Spike == 30

\* the lengths at which some method of the agent changes its answer
Lookbacks == {12, 14 + 1, 20, 26, MinHistory, 200}

Lens == (0..MaxShortLen) \cup {k + j : k \in Lookbacks, j \in (-1)..Slack}

\* n prices from BasePrice that go up by up and down by dn in turn, the last
\* one moved by spike
Series(n, up, dn, spike) ==
    [i \in 1..n |->
        BasePrice + ((i - 1) \div 2) * (up - dn)
                  + (IF (i - 1) % 2 = 1 THEN up ELSE 0)
                  + (IF i = n THEN spike ELSE 0)]

\* the generated series: flat, rising, falling and zigzag, with and without a
\* jump at the end
GeneratedSeries ==
    {Series(n, up, dn, spike) :
        n \in Lens, up \in 0..MaxStep, dn \in 0..MaxStep, spike \in {-Spike, 0, Spike}}

\* s with the k-th price from the end replaced by v
Poke(s, k, v) == [s EXCEPT ![Len(s) - k + 1] = v]

\* series holding one price that is zero or negative
PokedSeries ==
    {Poke(Series(n, 1, 1, 0), k, v) :
        n \in {MinHistory, MinHistory + Slack}, k \in {1, 5, 10, 20, 30}, v \in {0, -1}}

\* observations a rising series is followed for past the 200th
MaxGrow == 6

\* strictly increasing series, rising by up and by more in turn, at every
\* length from the last one too short for the 200-day average on
RisingSeries ==
    {Series(n, up, -more, 0) :
        n \in (200 - 1)..(200 + MaxGrow), up \in 1..MaxStep, more \in 1..MaxStep}

\* n prices level at BasePrice whose last k are level at BasePrice + jump
Stepped(n, k, jump) == [i \in 1..n |-> BasePrice + (IF i > n - k THEN jump ELSE 0)]

\* series whose two long averages part k observations before the end, around
\* the 5 observations the cross checks look back
SteppedSeries ==
    {Stepped(n, k, jump) :
        n \in (200 + 5 - 1)..(200 + 5 + Slack), k \in {1} \cup (5..(5 + Slack)),
        jump \in {-Spike, Spike}}

\* n prices level at v
Level(n, v) == [i \in 1..n |-> v]

\* MinHistory prices whose 20-day average is 408 or 392 against a 50-day
\* average of 400, and one observation more
BandSeries ==
    {Level(10, 394) \o Level(20, 395) \o Level(20, 408),
     Level(10, 406) \o Level(20, 405) \o Level(20, 392),
     Level(10, 394) \o Level(20, 395) \o Level(20, 408) \o Level(1, 409),
     Level(10, 406) \o Level(20, 405) \o Level(20, 392) \o Level(1, 391)}

\* the price of day i of a series that starts at 100.0 and rises 1% per day,
\* in tenths, each day's price rounded to the tenth
RECURSIVE CompoundAt(_)
CompoundAt(i) == IF i = 1 THEN 1000 ELSE (CompoundAt(i - 1) * 101 + 50) \div 100

\* 60 prices rising 1% per day from 100.0
RisingOnePercent == [i \in 1..60 |-> CompoundAt(i)]

\* MinHistory prices whose last 14 changes gain 15 and lose 4 in all
GainFifteenLoseFour ==
    Level(36, 400) \o <<403, 402, 405, 404, 407, 406, 409, 408, 411>> \o Level(5, 411)

\* 49 days at 1.0, then a close of 48.0: the fast average leaves the slow one
\* far behind
FlatThenLeap == Level(49, 1) \o <<48>>

InputSeries ==
    GeneratedSeries \cup PokedSeries \cup RisingSeries \cup SteppedSeries \cup BandSeries
        \cup {RisingOnePercent, GainFifteenLoseFour, FlatThenLeap}

Positive(p) == \A i \in 1..Len(p) : p[i] > 0

\* the ticker the agent is constructed with (MLTradingAgent.__init__ upper-cases it)
Symbol == "AAPL"

\* the periods the direct indicator calls are made with
SmaPeriods == (1..MaxShortLen) \cup {20, MinHistory, 200}

EmaPeriods == (1..MaxShortLen) \cup {12, 26}

----------------------------------------------------------------------------
(* RecommendationEngine (src/shared/recommendation_engine.py) *)

\* a key the dict does not hold
Missing == "missing"

TECHNICAL_WEIGHT == Num(6, 10)

SENTIMENT_WEIGHT_heavy == Num(6, 10)

SENTIMENT_WEIGHT == Num(4, 10)

\* signal_scores.get(key, 0.0)
signal_scores(key) ==
    CASE key = "buy"      -> Whole(1)
      [] key = "hold"     -> Whole(0)
      [] key = "sell"     -> Whole(-1)
      [] key = "positive" -> Num(7, 10)
      [] key = "negative" -> Num(-7, 10)
      [] key = "neutral"  -> Whole(0)
      [] OTHER            -> Whole(0)

\* combined_score from signals.get('signal', 'hold'),
\* signals.get('confidence', 0.5) and sentiment.get('sentiment', 'neutral');
\* a confidence key left out is None here
CombinedScore(signal, confidence, sentiment) ==
    RAdd(RMul(RMul(signal_scores(IF signal = Missing THEN "hold" ELSE signal),
                   IF confidence.isNone THEN Num(1, 2) ELSE confidence),
              TECHNICAL_WEIGHT),
         RMul(signal_scores(IF sentiment = Missing THEN "neutral" ELSE sentiment),
              SENTIMENT_WEIGHT))

\* _generate_recommendation(symbol, technical, sentiment, info): the action,
\* confidence, combined score and factors of the dict it returns
generate_recommendation(signal, confidence, sentiment) ==
    [action         |-> IF RGt(CombinedScore(signal, confidence, sentiment), Num(3, 10))
                        THEN "BUY"
                        ELSE IF RLt(CombinedScore(signal, confidence, sentiment),
                                    Num(-3, 10))
                        THEN "SELL" ELSE "HOLD",
     confidence     |-> IF RLt(Whole(1), RAbs(CombinedScore(signal, confidence, sentiment)))
                        THEN Whole(1)
                        ELSE RAbs(CombinedScore(signal, confidence, sentiment)),
     combined_score |-> CombinedScore(signal, confidence, sentiment),
     factors        |-> [technical_signal     |-> IF signal = Missing THEN "hold"
                                                  ELSE signal,
                         technical_confidence |-> IF confidence.isNone THEN Num(1, 2)
                                                  ELSE confidence,
                         sentiment            |-> IF sentiment = Missing THEN "neutral"
                                                  ELSE sentiment]]

RsiPeriods == (1..MaxShortLen) \cup {14}

BollingerPeriods == (2..MaxShortLen) \cup {20}

\* the indicator dicts generate_ml_signals is called with directly
IndicatorDicts ==
    {[isNone        |-> FALSE,
      ma20          |-> ma[1],
      ma50          |-> ma[2],
      rsi           |-> rsi,
      macd          |-> m[1],
      macd_signal   |-> m[2],
      volatility    |-> volatility,
      momentum      |-> momentum,
      current_price |-> Whole(BasePrice)] :
        volatility \in {Whole(0), Whole(4)},
        rsi \in {None, Whole(20), Whole(50), Whole(80)},
        ma \in {<<None, None>>, <<Whole(BasePrice + 1), Whole(BasePrice)>>,
                <<Whole(BasePrice - 1), Whole(BasePrice)>>,
                <<Whole(BasePrice), Whole(BasePrice)>>},
        m \in {<<None, None>>, <<Whole(1), Whole(0)>>, <<Whole(-1), Whole(0)>>},
        momentum \in {Num(-3, 100), Whole(0), Num(3, 100)}}

\* the arguments _generate_reasoning is called with directly: rsi, the two
\* averages, the MACD dict, the Bollinger dict, the price and the momentum
ReasoningArgs ==
    {<<rsi, ma[1], ma[2], macd_data, bb, Whole(BasePrice), momentum>> :
        rsi \in {None, Whole(20), Whole(50)},
        ma \in {<<None, None>>, <<Whole(BasePrice + 1), Whole(BasePrice)>>},
        macd_data \in {NoDict,
                       [isNone |-> FALSE, macd |-> Whole(1), signal |-> Num(9, 10),
                        histogram |-> Num(1, 10)]},
        bb \in {NoDict,
                [isNone |-> FALSE, upper |-> Whole(BasePrice - 1),
                 middle |-> Whole(BasePrice - 2), lower |-> Whole(BasePrice - 3)]},
        momentum \in {Whole(0), Whole(6)}}

\* the regularMarketPrice of the chart's meta block (0 when it is absent)
QuotedPrices == {Whole(0), Whole(BasePrice)}

----------------------------------------------------------------------------
(* The state machine: a caller holds a price series and invokes one method *)

NoCall == [op |-> "none", period |-> 0]

Pending == [pending |-> TRUE]

Init ==
    /\ prices \in InputSeries
    /\ call = NoCall
    /\ ret = Pending
    /\ locals = NoLocals
    /\ agent = [symbol |-> Symbol]
    /\ threads = <<>>
    /\ table = {}
    /\ clock = 0
    /\ requests = <<>>

\* get_ml_recommendation(symbol, prices): MLTradingAgent(symbol).analyze_stock(prices)
AnalyzeStock ==
    /\ call.op = "none"
    /\ \E out \in {analyze_stock(Symbol, prices)} :
          /\ ret' = out.ret
          /\ locals' = out.locals
    /\ call' = [op |-> "analyze_stock", period |-> 0]
    /\ UNCHANGED prices
    /\ UNCHANGED <<invocations, tracker>>

\* get_ml_recommendation(symbol, price_history) of the stock-data service:
\* LightweightTradingAgent(symbol).analyze(price_history).  numpy divides by a
\* zero price without raising (inf / nan), which the rationals here do not
\* hold, so the call is modelled on series of positive prices.
Analyze ==
    /\ call.op = "none"
    /\ Positive(prices)
    /\ \E r \in LwRoundings(prices) :
          \E out \in {analyze(Symbol, prices, r)} :
             /\ ret' = out.ret
             /\ locals' = out.locals
    /\ call' = [op |-> "analyze", period |-> 0]
    /\ UNCHANGED prices
    /\ UNCHANGED <<invocations, tracker>>

CalculateSma ==
    /\ call.op = "none"
    /\ \E period \in SmaPeriods :
          /\ call' = [op |-> "calculate_sma", period |-> period]
          /\ ret' = calculate_sma(prices, period)
    /\ UNCHANGED <<prices, locals>>
    /\ UNCHANGED <<invocations, tracker>>

CalculateEma ==
    /\ call.op = "none"
    /\ \E period \in EmaPeriods :
          /\ call' = [op |-> "calculate_ema", period |-> period]
          /\ ret' = calculate_ema(prices, period)
    /\ UNCHANGED <<prices, locals>>
    /\ UNCHANGED <<invocations, tracker>>

CalculateRsi ==
    /\ call.op = "none"
    /\ \E period \in RsiPeriods :
          /\ call' = [op |-> "calculate_rsi", period |-> period]
          /\ ret' = calculate_rsi(prices, period)
    /\ UNCHANGED <<prices, locals>>
    /\ UNCHANGED <<invocations, tracker>>

CalculateMacd ==
    /\ call.op = "none"
    /\ call' = [op |-> "calculate_macd", period |-> 0]
    /\ ret' = calculate_macd(prices)
    /\ UNCHANGED <<prices, locals>>
    /\ UNCHANGED <<invocations, tracker>>

CalculateBollingerBands ==
    /\ call.op = "none"
    /\ \E period \in BollingerPeriods :
          /\ call' = [op |-> "calculate_bollinger_bands", period |-> period]
          /\ ret' = calculate_bollinger_bands(prices, period)
    /\ UNCHANGED <<prices, locals>>
    /\ UNCHANGED <<invocations, tracker>>

\* LightweightTradingAgent(symbol).generate_ml_signals(indicators), called with
\* a dict of the caller's; the method takes no price series
GenerateMlSignals ==
    /\ call.op = "none"
    /\ Len(prices) = 0
    /\ \E I \in IndicatorDicts :
          /\ ret' = generate_ml_signals(I)
          /\ locals' = LwLocals(I)
    /\ call' = [op |-> "generate_ml_signals", period |-> 0]
    /\ UNCHANGED prices
    /\ UNCHANGED <<invocations, tracker>>

\* MLTradingAgent(symbol)._generate_reasoning(rsi, sma20, sma50, macd_data, bb,
\* price, momentum, volatility), called with values of the caller's; the method
\* takes no price series
GenerateReasoning ==
    /\ call.op = "none"
    /\ Len(prices) = 0
    /\ \E a \in ReasoningArgs :
          ret' = generate_reasoning(a[1], a[2], a[3], a[4], a[5], a[6], a[7])
    /\ call' = [op |-> "_generate_reasoning", period |-> 0]
    /\ UNCHANGED <<prices, locals>>
    /\ UNCHANGED <<invocations, tracker>>

\* LightweightTradingAgent(symbol)._ema(np.array(prices), period)
Ema ==
    /\ call.op = "none"
    /\ \E period \in EmaPeriods :
          /\ call' = [op |-> "_ema", period |-> period]
          /\ ret' = LwEma(Floats(prices), period)
    /\ UNCHANGED <<prices, locals>>
    /\ UNCHANGED <<invocations, tracker>>

\* TechnicalAnalyzer(data).generate_signals() with the series as data['Close']
TechnicalSignals ==
    /\ call.op = "none"
    /\ \E out \in {generate_signals(prices)} :
          /\ ret' = out.ret
          /\ locals' = out.locals
    /\ call' = [op |-> "generate_signals", period |-> 0]
    /\ UNCHANGED prices
    /\ UNCHANGED <<invocations, tracker>>

\* the technical confidences a recommendation is generated from: a grid over
\* [0, 1], and the key left out
ConfidenceSteps == 10

TechConfidences == {Num(k, ConfidenceSteps) : k \in 0..ConfidenceSteps} \cup {None}

\* RecommendationEngine()._generate_recommendation(symbol, technical,
\* sentiment, info), called with analyses of the caller's; the method takes no
\* price series
GenerateRecommendation ==
    /\ call.op = "none"
    /\ Len(prices) = 0
    /\ \E signal \in {"buy", "hold", "sell", Missing},
          confidence \in TechConfidences,
          sentiment \in {"positive", "neutral", "negative", Missing} :
          ret' = generate_recommendation(signal, confidence, sentiment)
    /\ call' = [op |-> "_generate_recommendation", period |-> 0]
    /\ UNCHANGED <<prices, locals>>
    /\ UNCHANGED <<invocations, tracker>>

\* TechnicalAnalyzer(data).calculate_bollinger_bands(), last row
BollingerBands ==
    /\ call.op = "none"
    /\ Len(prices) > 0
    /\ call' = [op |-> "TechnicalAnalyzer.calculate_bollinger_bands", period |-> 20]
    /\ ret' = TaBollingerBands(prices)
    /\ UNCHANGED <<prices, locals>>
    /\ UNCHANGED <<invocations, tracker>>

\* TechnicalAnalyzer(data).check_golden_cross()
CheckGoldenCross ==
    /\ call.op = "none"
    /\ call' = [op |-> "check_golden_cross", period |-> 0]
    /\ ret' = check_golden_cross(prices)
    /\ UNCHANGED <<prices, locals>>
    /\ UNCHANGED <<invocations, tracker>>

\* TechnicalAnalyzer(data).check_death_cross()
CheckDeathCross ==
    /\ call.op = "none"
    /\ call' = [op |-> "check_death_cross", period |-> 0]
    /\ ret' = check_death_cross(prices)
    /\ UNCHANGED <<prices, locals>>
    /\ UNCHANGED <<invocations, tracker>>

\* a request to the stock-data service whose chart holds the series
StockData ==
    /\ call.op = "none"
    /\ \E current_price \in QuotedPrices :
          ret' = lambda_handler(prices, current_price)
    /\ call' = [op |-> "lambda_handler", period |-> 0]
    /\ UNCHANGED <<prices, locals>>
    /\ UNCHANGED <<invocations, tracker>>

Next ==
    \/ AnalyzeStock
    \/ Analyze
    \/ CalculateSma
    \/ CalculateEma
    \/ CalculateRsi
    \/ CalculateMacd
    \/ CalculateBollingerBands
    \/ GenerateMlSignals
    \/ GenerateReasoning
    \/ Ema
    \/ TechnicalSignals
    \/ GenerateRecommendation
    \/ BollingerBands
    \/ CheckGoldenCross
    \/ CheckDeathCross
    \/ StockData

Spec == Init /\ [][Next]_vars

----------------------------------------------------------------------------
(* Concurrent invocations of analyze_stock on one MLTradingAgent instance.   *)
(* Each invocation has its own frame: the price list it was given (prices),  *)
(* its local variables (frame) and what it returns (result).  It goes        *)
(* through the sections of the method one at a time, and another invocation  *)
(* may run between any two of them.                                          *)

\* number of invocations under way at once
MaxThreads == 2

Threads == 1..MaxThreads

\* the price lists the concurrent callers pass: two full histories, one that
\* is a day short and one with a zero price
ConcurrentSeries ==
    {Series(MinHistory, 3, 2, 0), Series(MinHistory, 1, 3, -Spike),
     Series(MinHistory - 1, 1, 1, 0), Poke(Series(MinHistory, 1, 1, 0), 10, 0)}

\* an invocation that has just been called with the price list p
Called(p) == [pc |-> "called", prices |-> p, frame |-> NoLocals, result |-> Pending]

InitThreads ==
    /\ agent = [symbol |-> Symbol]
    /\ threads \in [Threads -> {Called(p) : p \in ConcurrentSeries}]
    /\ prices = <<>>
    /\ call = NoCall
    /\ ret = Pending
    /\ locals = NoLocals
    /\ table = {}
    /\ clock = 0
    /\ requests = <<>>

\* the invocation th after returning (or raising) result
Finished(th, result) == [th EXCEPT !.pc = "returned", !.result = result]

\* the invocation th at the section pc with the local variables frame
Advanced(th, pc, frame) == [th EXCEPT !.pc = pc, !.frame = frame]

\* "if len(prices) < 50: return {...}"
CheckLength ==
    /\ \E t \in Threads :
          /\ threads[t].pc = "called"
          /\ threads' =
                [threads EXCEPT ![t] =
                    IF Len(threads[t].prices) < MinHistory
                    THEN Finished(threads[t], InsufficientData)
                    ELSE Advanced(threads[t], "indicators", NoLocals)]
    /\ UNCHANGED <<agent, prices, call, ret, locals, tracker>>

\* "Calculate all indicators", momentum and volatility; a zero divisor raises
CalculateIndicators ==
    /\ \E t \in Threads :
          /\ threads[t].pc = "indicators"
          /\ threads' =
                [threads EXCEPT ![t] =
                    IF DividesByZero(threads[t].prices)
                    THEN Finished(threads[t], Raised("ZeroDivisionError"))
                    ELSE Advanced(threads[t], "signals", Indicators(threads[t].prices))]
    /\ UNCHANGED <<agent, prices, call, ret, locals, tracker>>

\* the six signal rules and "Aggregate signals using weighted voting", kept on
\* the instance instead of in local variables
AppendSignals_on_instance ==
    /\ \E t \in Threads :
          /\ threads[t].pc = "signals"
          /\ agent' = [symbol  |-> agent.symbol,
                       signals |-> Votes(GenerateSignals(threads[t].frame)).signals]
          /\ threads' =
                [threads EXCEPT ![t] =
                    Advanced(threads[t], "decision", WithVotes(threads[t].frame))]
    /\ UNCHANGED <<prices, call, ret, locals, tracker>>

\* the six signal rules and "Aggregate signals using weighted voting"
AppendSignals ==
    /\ \E t \in Threads :
          /\ threads[t].pc = "signals"
          /\ threads' =
                [threads EXCEPT ![t] =
                    Advanced(threads[t], "decision", WithVotes(threads[t].frame))]
    /\ UNCHANGED <<agent, prices, call, ret, locals, tracker>>

\* "Determine final recommendation"
DetermineRecommendation ==
    /\ \E t \in Threads :
          /\ threads[t].pc = "decision"
          /\ threads' =
                [threads EXCEPT ![t] =
                    Advanced(threads[t], "return", WithDecision(threads[t].frame))]
    /\ UNCHANGED <<agent, prices, call, ret, locals, tracker>>

\* the return statement: the dict is built from the locals and self.symbol
ReturnRecommendation ==
    /\ \E t \in Threads :
          /\ threads[t].pc = "return"
          /\ threads' =
                [threads EXCEPT ![t] =
                    Finished(threads[t], Recommendation(agent.symbol, threads[t].frame))]
    /\ UNCHANGED <<agent, prices, call, ret, locals, tracker>>

NextThreads ==
    \/ CheckLength
    \/ CalculateIndicators
    \/ AppendSignals
    \/ DetermineRecommendation
    \/ ReturnRecommendation

SpecThreads == InitThreads /\ [][NextThreads]_vars

----------------------------------------------------------------------------
(* save_prediction (src/lambda/tracking/handler.py; the same steps in
   src/lambda-micro/prediction-tracker/handler.py and src/web/app.py) on the
   predictions table, whose key is prediction_id.  Requests are served
   concurrently, one invocation each; datetime.now() is read where the code
   reads it. *)

MaxRequests == 3

MaxClock == 2

\* data['symbol'] of the requests
TrackedSymbols == {"AAPL", "TSLA"}

\* f"{data['symbol']}_{datetime.now().strftime('%Y%m%d%H%M%S')}": the symbol
\* and the clock to the second
PredictionId(symbol, now) == [symbol |-> symbol, second |-> now]

NoId == [symbol |-> "", second |-> -1]

\* the item of save_prediction, with the fields the table is read by
Item(prediction_id, symbol, now) ==
    [prediction_id |-> prediction_id, symbol |-> symbol, outcome |-> "pending",
     created_at |-> now]

NoItem == Item(NoId, "", -1)

\* table.put_item(Item=item): an item of the same key is replaced
PutInto(items, item) ==
    {i \in items : i.prediction_id # item.prediction_id} \cup {item}

InitTracker ==
    /\ table = {}
    /\ clock = 0
    /\ requests = <<>>
    /\ prices = <<>>
    /\ call = NoCall
    /\ ret = Pending
    /\ locals = NoLocals
    /\ agent = [symbol |-> Symbol]
    /\ threads = <<>>

\* a second passes
Tick ==
    /\ clock < MaxClock
    /\ clock' = clock + 1
    /\ UNCHANGED <<table, requests>>
    /\ UNCHANGED <<prices, call, ret, locals, invocations>>

\* lambda_handler is invoked with action save_prediction and data
SavePrediction ==
    /\ Len(requests) < MaxRequests
    /\ \E symbol \in TrackedSymbols :
          requests' = Append(requests, [symbol |-> symbol, pc |-> "called",
                                        prediction_id |-> NoId, item |-> NoItem,
                                        statusCode |-> 0])
    /\ UNCHANGED <<table, clock>>
    /\ UNCHANGED <<prices, call, ret, locals, invocations>>

\* prediction_id = f"{data['symbol']}_{datetime.now()...}"
GeneratePredictionId ==
    /\ \E r \in DOMAIN requests :
          /\ requests[r].pc = "called"
          /\ requests' = [requests EXCEPT
                ![r].pc = "id",
                ![r].prediction_id = PredictionId(requests[r].symbol, clock)]
    /\ UNCHANGED <<table, clock>>
    /\ UNCHANGED <<prices, call, ret, locals, invocations>>

\* item = {...}, its created_at read from the clock anew
BuildItem ==
    /\ \E r \in DOMAIN requests :
          /\ requests[r].pc = "id"
          /\ requests' = [requests EXCEPT
                ![r].pc = "item",
                ![r].item = Item(requests[r].prediction_id, requests[r].symbol, clock)]
    /\ UNCHANGED <<table, clock>>
    /\ UNCHANGED <<prices, call, ret, locals, invocations>>

\* table.put_item(Item=item) and the 200 response with the prediction_id
PutItem ==
    /\ \E r \in DOMAIN requests :
          /\ requests[r].pc = "item"
          /\ table' = PutInto(table, requests[r].item)
          /\ requests' = [requests EXCEPT ![r].pc = "saved", ![r].statusCode = 200]
    /\ UNCHANGED clock
    /\ UNCHANGED <<prices, call, ret, locals, invocations>>

NextTracker ==
    \/ Tick
    \/ SavePrediction
    \/ GeneratePredictionId
    \/ BuildItem
    \/ PutItem

SpecTracker == InitTracker /\ [][NextTracker]_vars

----------------------------------------------------------------------------
(* Properties *)

\* the keys of the dict a successful analyze_stock returns
RecommendationKeys ==
    {"symbol", "recommendation", "confidence", "ml_score", "signals",
     "indicators", "reasoning", "risk_level"}

Analyzed == call.op = "analyze_stock"

\* C1: analyze_stock on fewer than 50 prices (49 and none included) returns the
\* insufficient-data dict, which carries an 'error' key, and does not raise; on
\* exactly 50 positive prices it returns the full recommendation dict, which
\* carries no 'error' key.  analyze of the lightweight agent does the same.
C1_InsufficientData ==
    /\ Analyzed =>
          /\ Len(prices) < 50 =>
                /\ DOMAIN ret = {"error", "recommendation", "confidence"}
                /\ ret.recommendation = "hold"
                /\ ret.confidence = Whole(0)
          /\ (Len(prices) = 50 /\ Positive(prices)) =>
                DOMAIN ret = RecommendationKeys
    /\ call.op = "analyze" =>
          /\ Len(prices) < 50 =>
                DOMAIN ret = {"error", "recommendation", "confidence"}
          /\ Len(prices) = 50 =>
                ("error" \notin DOMAIN ret /\ "recommendation" \in DOMAIN ret)

\* C1 witness: a 49-price series was analysed and got the error dict
C1_Witness ==
    /\ Analyzed
    /\ Len(prices) = 49
    /\ "error" \in DOMAIN ret

\* analyze_stock reached its return statement
Recommended == Analyzed /\ ~locals.isNone

\* generate_ml_signals ran, called directly or from analyze
MlSignalled == call.op \in {"analyze", "generate_ml_signals"} /\ ~locals.isNone

\* generate_signals of the TechnicalAnalyzer reached its return statement
TaSignalled == call.op = "generate_signals" /\ ~locals.isNone

\* the confidences that go with the emitted signals in the frame L
ConfidenceList(L) ==
    IF "confidences" \in DOMAIN L THEN L.confidences ELSE L.confidence_scores

\* number of emitted signals of direction dir
DirCount(signals, dir) == Cardinality({i \in 1..Len(signals) : signals[i] = dir})

\* score of a direction: the mean confidence of its signals, 0 without any
Score(signals, confs, dir) ==
    IF DirCount(signals, dir) = 0 THEN Whole(0)
    ELSE RDiv(RSum([i \in 1..Len(signals) |->
                       IF signals[i] = dir THEN confs[i] ELSE Whole(0)]),
              Whole(DirCount(signals, dir)))

RMin(a, b) == IF RLt(a, b) THEN a ELSE b

\* the decision rule as stated: counts of buy against sell, and a score above 0.5
StatedDecision(signals, confs) ==
    IF DirCount(signals, "buy") > DirCount(signals, "sell")
       /\ RGt(Score(signals, confs, "buy"), Num(1, 2))
    THEN [recommendation |-> "buy",
          confidence |-> RMin(Score(signals, confs, "buy"), Whole(1))]
    ELSE IF DirCount(signals, "sell") > DirCount(signals, "buy")
            /\ RGt(Score(signals, confs, "sell"), Num(1, 2))
    THEN [recommendation |-> "sell",
          confidence |-> RMin(Score(signals, confs, "sell"), Whole(1))]
    ELSE [recommendation |-> "hold", confidence |-> Num(1, 2)]

\* C2: for every list of emitted signals the aggregator of analyze_stock and of
\* generate_ml_signals decides BUY with confidence min(buyScore, 1) exactly when
\* buyCount > sellCount and buyScore > 0.5, SELL symmetrically, and HOLD with
\* confidence 0.5 otherwise; hold signals play no part.
C2_StatedDecisionRule ==
    (Recommended \/ MlSignalled) =>
        /\ locals.recommendation =
              StatedDecision(locals.signals, ConfidenceList(locals)).recommendation
        /\ locals.confidence =
              StatedDecision(locals.signals, ConfidenceList(locals)).confidence

\* C3: whenever the buy signals are as many as the sell signals (none of either
\* included), analyze_stock and generate_ml_signals decide HOLD with confidence
\* exactly 0.5, whatever the confidences of the signals.
C3_TieIsHold ==
    ((Recommended \/ MlSignalled)
        /\ DirCount(locals.signals, "buy") = DirCount(locals.signals, "sell")) =>
        /\ locals.recommendation = "hold"
        /\ locals.confidence = Num(1, 2)
        /\ ret.recommendation \in {"HOLD", "hold"}
        /\ ret.confidence = Num(1, 2)

\* C3 witness: analyze_stock saw as many buy as sell signals, at least one of
\* each, with different mean confidences
C3_Witness ==
    /\ Recommended
    /\ locals.buy_count = locals.sell_count
    /\ locals.buy_count > 0
    /\ locals.buy_confidence # locals.sell_confidence
    /\ ret.recommendation = "HOLD"

\* C4: in all three aggregators the score of a direction is the mean of the
\* confidences of that direction's signals only (0 without any), and the
\* confidence reported with a BUY (SELL) is the buy (sell) mean.
C4_DirectionMean ==
    /\ Recommended =>
          /\ locals.buy_confidence = Score(locals.signals, locals.confidences, "buy")
          /\ locals.sell_confidence = Score(locals.signals, locals.confidences, "sell")
          /\ locals.recommendation = "buy" => locals.confidence = locals.buy_confidence
          /\ locals.recommendation = "sell" => locals.confidence = locals.sell_confidence
    /\ MlSignalled =>
          /\ locals.recommendation = "buy" =>
                ret.confidence = Score(locals.signals, locals.confidence_scores, "buy")
          /\ locals.recommendation = "sell" =>
                ret.confidence = Score(locals.signals, locals.confidence_scores, "sell")
    /\ TaSignalled =>
          /\ ret.signal = "buy" =>
                ret.confidence = Score(locals.signals, locals.confidence_scores, "buy")
          /\ ret.signal = "sell" =>
                ret.confidence = Score(locals.signals, locals.confidence_scores, "sell")

\* the risk classification as stated, for a number rsi
StatedRisk(volatility_pct, rsi) ==
    IF RGt(volatility_pct, Whole(5)) \/ RLt(rsi, Whole(25)) \/ RGt(rsi, Whole(75))
    THEN "HIGH"
    ELSE IF RGt(volatility_pct, Whole(3)) \/ RLt(rsi, Whole(35)) \/ RGt(rsi, Whole(65))
    THEN "MEDIUM"
    ELSE "LOW"

\* C5: for every volatility% >= 0 and every RSI in [0, 100] that is not None,
\* the risk level is HIGH exactly when volatility% > 5 or RSI < 25 or RSI > 75,
\* otherwise MEDIUM exactly when volatility% > 3 or RSI < 35 or RSI > 65, and
\* otherwise LOW.
C5_StatedRisk ==
    (Recommended
        /\ ~locals.rsi.isNone
        /\ RLe(Whole(0), locals.rsi) /\ RLe(locals.rsi, Whole(100))
        /\ RLe(Whole(0), locals.volatility_pct)) =>
        ret.risk_level = StatedRisk(locals.volatility_pct, locals.rsi)

\* C6: every dict analyze_stock returns for at least 50 positive prices has all
\* its keys, an action among BUY, SELL and HOLD, a confidence in [0, 1], a risk
\* level among LOW, MEDIUM and HIGH, and signal counts that add up to the total.
C6_RecommendationShape ==
    (Analyzed /\ Len(prices) >= 50 /\ Positive(prices)) =>
        /\ DOMAIN ret = RecommendationKeys
        /\ ret.recommendation \in {"BUY", "SELL", "HOLD"}
        /\ ~ret.confidence.isNone
        /\ RLe(Whole(0), ret.confidence) /\ RLe(ret.confidence, Whole(1))
        /\ ret.risk_level \in {"LOW", "MEDIUM", "HIGH"}
        /\ DOMAIN ret.signals = {"buy", "sell", "hold", "total"}
        /\ ret.signals.buy + ret.signals.sell + ret.signals.hold = ret.signals.total
        /\ DOMAIN ret.indicators =
              {"rsi", "sma_20", "sma_50", "macd", "momentum_10d", "volatility_pct"}

\* C6 witness: a recommendation to sell from signals of all three kinds
C6_Witness ==
    /\ Analyzed
    /\ Len(prices) > 50
    /\ Positive(prices)
    /\ DOMAIN ret = RecommendationKeys
    /\ ret.recommendation = "SELL"
    /\ ret.signals.buy > 0
    /\ ret.signals.hold > 0

\* the closes the stock-data handler keeps of its chart
Closes == LastN(prices, 90)

\* C7: an indicator of a result's snapshot is None exactly when the series is
\* shorter than the indicator's lookback: a computed value (0 included) is
\* reported as a number, and no number stands in for a value that could not be
\* computed.
C7_NullExactlyWhenShort ==
    /\ Recommended =>
          /\ ret.indicators.rsi.isNone <=> Len(prices) < 14 + 1
          /\ ret.indicators.sma_20.isNone <=> Len(prices) < 20
          /\ ret.indicators.sma_50.isNone <=> Len(prices) < 50
          /\ ret.indicators.macd.isNone <=> Len(prices) < 26
    /\ call.op = "lambda_handler" =>
          /\ ret.sma_20.isNone <=> Len(Closes) < 20
          /\ ret.sma_50.isNone <=> Len(Closes) < 50

\* C8: analyze_stock rejects a series of at least 50 prices that holds a zero
\* or negative price with an invalid-input result: it neither raises nor
\* returns a recommendation computed from the bad price.
C8_RejectsBadPrice ==
    (Analyzed /\ Len(prices) >= 50 /\ ~Positive(prices)) =>
        /\ "raised" \notin DOMAIN ret
        /\ "error" \in DOMAIN ret

\* C9: each indicator method returns None, without raising, below its lookback
\* (sma, ema: len < period; rsi: len < period + 1; macd: len < 26; bollinger:
\* len < period) and a value for every other series of positive prices.
C9_NoneBelowLookback ==
    /\ call.op \in {"calculate_sma", "calculate_ema"} =>
          /\ Len(prices) < call.period => ret = None
          /\ (Len(prices) >= call.period /\ Positive(prices)) =>
                ("isNone" \in DOMAIN ret /\ ~ret.isNone /\ "raised" \notin DOMAIN ret)
    /\ call.op = "calculate_rsi" =>
          /\ Len(prices) < call.period + 1 => ret = None
          /\ (Len(prices) >= call.period + 1 /\ Positive(prices)) =>
                ("isNone" \in DOMAIN ret /\ ~ret.isNone /\ "raised" \notin DOMAIN ret)
    /\ call.op = "calculate_macd" =>
          /\ Len(prices) < 26 => ret = NoDict
          /\ (Len(prices) >= 26 /\ Positive(prices)) =>
                (~ret.isNone /\ ~ret.macd.isNone /\ ~ret.signal.isNone)
    /\ call.op = "calculate_bollinger_bands" =>
          /\ Len(prices) < call.period => ret = NoDict
          /\ (Len(prices) >= call.period /\ Positive(prices)) =>
                (~ret.isNone /\ ~ret.upper.isNone /\ ~ret.lower.isNone)

\* C9 witness: calculate_rsi(prices, 14) on 14 prices, one short, returned None
C9_Witness ==
    /\ call.op = "calculate_rsi"
    /\ call.period = 14
    /\ Len(prices) = 14
    /\ ret = None

\* p[lo] + ... + p[hi] for whole-number prices
RECURSIVE PriceSum(_, _, _)
PriceSum(p, lo, hi) ==
    IF lo > hi THEN 0
    ELSE IF lo = hi THEN p[lo]
    ELSE PriceSum(p, lo, (lo + hi) \div 2) + PriceSum(p, (lo + hi) \div 2 + 1, hi)

\* C10: calculate_sma(prices, period) is the arithmetic mean of the last period
\* prices whenever len(prices) >= period, the mean of the whole series when
\* len(prices) = period, and None when len(prices) = period - 1.
C10_SmaIsMeanOfLast ==
    call.op = "calculate_sma" =>
        /\ Len(prices) >= call.period =>
              /\ ~ret.isNone
              /\ ret.n * call.period =
                    PriceSum(prices, Len(prices) - call.period + 1, Len(prices)) * ret.d
        /\ Len(prices) = call.period =>
              ret.n * Len(prices) = PriceSum(prices, 1, Len(prices)) * ret.d
        /\ Len(prices) = call.period - 1 => ret = None

\* C10 witness: the 20-day average of 21 prices whose first and last differ
C10_Witness ==
    /\ call.op = "calculate_sma"
    /\ call.period = 20
    /\ Len(prices) = 21
    /\ prices[1] # prices[21]
    /\ ~ret.isNone

\* one step of the stated recursion on the grid: ema = (price - ema) * 2/(period+1) + ema
StatedEmaStep(ema, price, period) ==
    ema + (((price * EmaScale - ema) * 2) \div (period + 1))

\* the stated steps for the prices p[lo..hi] in order, from the value ema
\* (times EmaScale); the range is split in halves to keep the recursion shallow
RECURSIVE StatedEmaOver(_, _, _, _, _)
StatedEmaOver(ema, p, lo, hi, period) ==
    IF lo > hi THEN ema
    ELSE IF lo = hi THEN StatedEmaStep(ema, p[lo], period)
    ELSE IF StatedEmaOver(ema, p, lo, (lo + hi) \div 2, period) = ema
    THEN StatedEmaOver(ema, p, (lo + hi) \div 2 + 1, hi, period)
    ELSE StatedEmaOver(StatedEmaOver(ema, p, lo, (lo + hi) \div 2, period),
                       p, (lo + hi) \div 2 + 1, hi, period)

\* the stated EMA: None below period prices, else seeded with the mean of the
\* first period prices and stepped over the later ones
StatedEma(p, period) ==
    IF Len(p) < period THEN None
    ELSE Num(StatedEmaOver(FloorScaled(Num(PriceSum(p, 1, period), period), EmaScale),
                           p, period + 1, Len(p), period),
             EmaScale)

\* C11: calculate_ema and _ema seed with the mean of the first period prices,
\* apply ema = (price - ema) * (2 / (period + 1)) + ema for each later price in
\* order, and return None whenever there are fewer than period prices.
C11_SeededEma ==
    call.op \in {"calculate_ema", "_ema"} => ret = StatedEma(prices, call.period)

\* the last 14 day-over-day changes of p exist and none of them is a loss
NoLossIn14(p) ==
    /\ Len(p) >= 14 + 1
    /\ \A i \in (Len(p) - 14)..(Len(p) - 1) : p[i + 1] >= p[i]

\* C12: each of the three RSI implementations yields exactly 100 whenever the
\* average loss over the last 14 changes is 0, a constant series of 200 or more
\* prices (average gain 0 too) included, and no undefined value.
C12_HundredWithoutLoss ==
    NoLossIn14(prices) =>
        /\ (call.op = "calculate_rsi" /\ call.period = 14) => ret = Whole(100)
        /\ (call.op = "analyze" /\ ~locals.isNone) => ret.indicators.rsi = Whole(100)
        /\ TaSignalled => ret.rsi = Whole(100)

\* the last 14 day-over-day changes of p, oldest first
Last14Changes(p) == [i \in 1..14 |-> p[Len(p) - 14 + i] - p[Len(p) - 15 + i]]

\* the sum of the gains and of the losses among them
GainIn14(p) ==
    PriceSum([i \in 1..14 |-> IF Last14Changes(p)[i] > 0 THEN Last14Changes(p)[i] ELSE 0],
             1, 14)

LossIn14(p) ==
    PriceSum([i \in 1..14 |-> IF Last14Changes(p)[i] < 0 THEN -Last14Changes(p)[i] ELSE 0],
             1, 14)

\* C13: for at least 15 positive prices calculate_rsi(prices, 14) is a value in
\* [0, 100] that depends on the last 14 changes only: 100 when none is a loss,
\* 0 when none is a gain and some is a loss, and otherwise
\* 100 - 100 / (1 + avgGain / avgLoss).
C13_RsiOfLast14 ==
    (call.op = "calculate_rsi" /\ call.period = 14
        /\ Len(prices) >= 15 /\ Positive(prices)) =>
        /\ ~ret.isNone
        /\ RLe(Whole(0), ret) /\ RLe(ret, Whole(100))
        /\ LossIn14(prices) = 0 => ret = Whole(100)
        /\ (GainIn14(prices) = 0 /\ LossIn14(prices) > 0) => ret = Whole(0)
        /\ LossIn14(prices) > 0 =>
              ret = RSub(Whole(100),
                         RDiv(Whole(100),
                              RAdd(Whole(1),
                                   RDiv(Num(GainIn14(prices), 14),
                                        Num(LossIn14(prices), 14)))))

\* C13 witness: calculate_rsi(prices, 14) on a series whose last 14 changes hold
\* gains and losses and whose earlier changes differ from them
C13_Witness ==
    /\ call.op = "calculate_rsi"
    /\ call.period = 14
    /\ Len(prices) >= 26
    /\ Positive(prices)
    /\ GainIn14(prices) > 0
    /\ LossIn14(prices) > 0
    /\ GainIn14(prices) # GainIn14(SubSeq(prices, 1, Len(prices) - 1))
    /\ RLt(Whole(0), ret) /\ RLt(ret, Whole(100))

\* the stated step from the value ema to a value already on the grid
StatedStepTo(ema, scaled, period) == ema + (((scaled - ema) * 2) \div (period + 1))

\* the stated MACD history at observation t > 26, from the history st before it
\* and the two averages fast and slow at t: the MACD line is fast - slow, and
\* the signal line is the mean of the first 9 MACD values (observations 26 to
\* 34) and from then on their 9-period EMA; all values times EmaScale
StatedMacdWith(st, fast, slow, t) ==
    [fast   |-> fast,
     slow   |-> slow,
     sum    |-> IF t <= 26 + 8 THEN st.sum + (fast - slow) ELSE st.sum,
     signal |-> IF t < 26 + 8 THEN 0
                ELSE IF t = 26 + 8 THEN (st.sum + (fast - slow)) \div 9
                ELSE StatedStepTo(st.signal, fast - slow, 9)]

StatedMacdStep(st, x, t) ==
    StatedMacdWith(st, StatedEmaStep(st.fast, x, 12), StatedEmaStep(st.slow, x, 26), t)

\* the observations lo..hi in order, by halves
RECURSIVE StatedMacdOver(_, _, _, _)
StatedMacdOver(st, p, lo, hi) ==
    IF lo > hi THEN st
    ELSE IF lo = hi THEN StatedMacdStep(st, p[lo], lo)
    ELSE LET half == StatedMacdOver(st, p, lo, (lo + hi) \div 2)
         IN IF half = st THEN StatedMacdOver(st, p, (lo + hi) \div 2 + 1, hi)
            ELSE StatedMacdOver(half, p, (lo + hi) \div 2 + 1, hi)

\* the stated MACD history at observation 26, where the MACD line starts
StatedMacdStart(fast, slow) ==
    [fast |-> fast, slow |-> slow, sum |-> fast - slow, signal |-> 0]

\* the stated signal line of at least 35 prices
StatedSignalLine(p) ==
    Num(StatedMacdOver(
            StatedMacdStart(StatedEmaOver(FloorScaled(Num(PriceSum(p, 1, 12), 12), EmaScale),
                                          p, 12 + 1, 26, 12),
                            FloorScaled(Num(PriceSum(p, 1, 26), 26), EmaScale)),
            p, 26 + 1, Len(p)).signal,
        EmaScale)

\* C14: for at least 35 prices the MACD signal line is the 9-period EMA of the
\* history of MACD-line values, and histogram = macd - signal; below 26 prices
\* the MACD is None.
C14_TrueSignalLine ==
    /\ call.op = "calculate_macd" =>
          /\ Len(prices) < 26 => ret = NoDict
          /\ Len(prices) >= 26 + 9 =>
                /\ ret.signal = StatedSignalLine(prices)
                /\ ret.histogram = RSub(ret.macd, ret.signal)
    /\ (call.op = "analyze" /\ ~locals.isNone /\ Len(prices) >= 26 + 9) =>
          locals.macd_signal = StatedSignalLine(prices)

\* the stated momentum(prices, lag): the reference price lies lag observations
\* before the last one
StatedMomentum(p, lag) ==
    RMul(RDiv(Whole(At(p, 1) - At(p, 1 + lag)), Whole(At(p, 1 + lag))), Whole(100))

\* C15: the 10-day momentum the signal generators use is
\* (prices[-1] - prices[-11]) / prices[-11] * 100, and the 20-day momentum uses
\* prices[-21] likewise.
C15_MomentumOverLag ==
    /\ (Recommended /\ Positive(prices)) =>
          /\ locals.momentum_10 = StatedMomentum(prices, 10)
          /\ locals.momentum_20 = StatedMomentum(prices, 20)
    /\ (call.op = "analyze" /\ ~locals.isNone /\ Positive(prices)) =>
          locals.momentum = StatedMomentum(prices, 10)

\* both long averages exist at observation -k
BothAveragesAt(p, k) == Len(p) - k + 1 >= 200

\* 200 times the gap between SMA-50 and SMA-200 at observation -k
StatedGap(p, k) ==
    4 * PriceSum(p, Len(p) - k - 50 + 2, Len(p) - k + 1)
      - PriceSum(p, Len(p) - k - 200 + 2, Len(p) - k + 1)

\* SMA-50 crossed above SMA-200 between observations -i-1 and -i, i in 1..5
StatedGoldenCross(p) ==
    \E i \in 1..5 :
        /\ BothAveragesAt(p, i + 1)
        /\ StatedGap(p, i) > 0
        /\ StatedGap(p, i + 1) <= 0

StatedDeathCross(p) ==
    \E i \in 1..5 :
        /\ BothAveragesAt(p, i + 1)
        /\ StatedGap(p, i) < 0
        /\ StatedGap(p, i + 1) >= 0

\* C16: on at least 200 prices check_golden_cross is true exactly when for some
\* i in 1..5 SMA-50 is above SMA-200 at observation -i and not above it at
\* observation -i-1 (both averages being there at both observations), and
\* check_death_cross exactly in the mirrored case; on fewer than 200 prices both
\* are false.
C16_CrossWithinFive ==
    /\ call.op = "check_golden_cross" =>
          ret = (Len(prices) >= 200 /\ StatedGoldenCross(prices))
    /\ call.op = "check_death_cross" =>
          ret = (Len(prices) >= 200 /\ StatedDeathCross(prices))
    /\ TaSignalled =>
          /\ ret.golden_cross = StatedGoldenCross(prices)
          /\ ret.death_cross = StatedDeathCross(prices)

\* a death cross 5 observations back, the averages being level before it, and a
\* call on 199 prices
C16_Witness ==
    /\ call.op = "check_death_cross"
    /\ \/ /\ ret
          /\ StatedGap(prices, 5) < 0
          /\ StatedGap(prices, 5 + 1) = 0
          /\ \A i \in 1..4 : StatedGap(prices, i) < 0
       \/ /\ Len(prices) = 200 - 1
          /\ ~ret

StrictlyIncreasing(p) == \A i \in 1..(Len(p) - 1) : p[i] < p[i + 1]

\* C17: on a strictly increasing series of any length n >= 200
\* check_golden_cross returns false, and generate_signals reports neither cross
\* and emits neither the golden-cross buy nor the death-cross sell (the only
\* signals of confidence 0.9).
C17_NoCrossWhileRising ==
    (StrictlyIncreasing(prices) /\ Len(prices) >= 200) =>
        /\ call.op = "check_golden_cross" => ~ret
        /\ TaSignalled =>
              /\ ~ret.golden_cross
              /\ ~ret.death_cross
              /\ \A i \in 1..Len(locals.signals) :
                    locals.confidence_scores[i] # Num(9, 10)

\* generate_signals on exactly 200 rising prices, the first length with a
\* 200-day average, which lies above no earlier one
C17_Witness ==
    /\ call.op = "generate_signals"
    /\ StrictlyIncreasing(prices)
    /\ Len(prices) = 200
    /\ ~locals.isNone
    /\ Len(locals.signals) > 0
    /\ StatedGap(prices, 1) > 0

\* number of emitted signals that carry the confidence conf
WithConfidence(L, conf) ==
    Cardinality({i \in 1..Len(L.signals) : L.confidences[i] = conf})

\* the frame L holds a signal of direction dir with confidence conf
Emitted(L, dir, conf) ==
    \E i \in 1..Len(L.signals) : L.signals[i] = dir /\ L.confidences[i] = conf

\* C18: analyze_stock emits at most one signal per rule (RSI 0.85 / 0.6,
\* SMA20-SMA50 0.75, SMA50-SMA200 and MACD 0.70 each, Bollinger 0.80, momentum
\* 0.65), so at most 6 signals and at most one hold; the RSI rule emits buy
\* exactly when RSI < 30, sell exactly when RSI > 70, hold exactly when
\* 40 <= RSI <= 60, and nothing for RSI in [30,40) or (60,70].
C18_OneSignalPerRule ==
    Recommended =>
        /\ Len(locals.signals) <= 6
        /\ locals.hold_count <= 1
        /\ WithConfidence(locals, Num(85, 100)) + WithConfidence(locals, Num(6, 10)) <= 1
        /\ WithConfidence(locals, Num(75, 100)) <= 1
        /\ WithConfidence(locals, Num(70, 100)) <= 2
        /\ WithConfidence(locals, Num(80, 100)) <= 1
        /\ WithConfidence(locals, Num(65, 100)) <= 1
        /\ ~locals.rsi.isNone
        /\ Emitted(locals, "buy", Num(85, 100)) <=> RLt(locals.rsi, Whole(30))
        /\ Emitted(locals, "sell", Num(85, 100)) <=> RGt(locals.rsi, Whole(70))
        /\ locals.hold_count = 1 <=>
              (RLe(Whole(40), locals.rsi) /\ RLe(locals.rsi, Whole(60)))
        /\ locals.hold_count = 1 => locals.signals[1] = "hold"

\* an RSI strictly between 60 and 70: other rules emit, the RSI rule does not
C18_Witness ==
    /\ Recommended
    /\ RGt(locals.rsi, Whole(60))
    /\ RLt(locals.rsi, Whole(70))
    /\ Len(locals.signals) >= 2
    /\ locals.hold_count = 0
    /\ WithConfidence(locals, Num(85, 100)) = 0

\* C19: the moving-average crossover rule emits buy exactly when
\* SMA20 >= 1.02 x SMA50, sell exactly when SMA20 <= 0.98 x SMA50, and nothing
\* strictly between; its signal is the one of confidence 0.75 in analyze_stock
\* and the one of confidence 0.6 in generate_ml_signals.
C19_TwoPercentBand ==
    /\ Recommended =>
          /\ Emitted(locals, "buy", Num(75, 100)) <=>
                RGe(locals.sma20, RMul(locals.sma50, Num(102, 100)))
          /\ Emitted(locals, "sell", Num(75, 100)) <=>
                RLe(locals.sma20, RMul(locals.sma50, Num(98, 100)))
    /\ (call.op = "analyze" /\ ~locals.isNone /\ Positive(prices)) =>
          /\ (\E i \in 1..Len(locals.signals) :
                 locals.signals[i] = "buy" /\ locals.confidence_scores[i] = Num(6, 10))
                <=> RGe(locals.ma20, RMul(locals.ma50, Num(102, 100)))
          /\ (\E i \in 1..Len(locals.signals) :
                 locals.signals[i] = "sell" /\ locals.confidence_scores[i] = Num(6, 10))
                <=> RLe(locals.ma20, RMul(locals.ma50, Num(98, 100)))

\* lo <= x <= hi, in hundredths
Within(x, lo, hi) == RLe(Num(lo, 100), x) /\ RLe(x, Num(hi, 100))

\* the ranges of the rule table a signal of direction dir can fall in: the RSI
\* hold range for a hold, and for a buy or sell the ranges of RSI (70-85),
\* SMA20/SMA50 (60-75), SMA50/SMA200 (70), MACD (60-70), Bollinger (80) and
\* momentum (50-65)
InTableRange(dir, conf) ==
    IF dir = "hold" THEN Within(conf, 30, 60)
    ELSE \E r \in {<<70, 85>>, <<60, 75>>, <<70, 70>>, <<60, 70>>, <<80, 80>>, <<50, 65>>} :
            Within(conf, r[1], r[2])

ScenarioAnalyzed == Recommended /\ prices = RisingOnePercent

\* C21 as stated: on the 60 prices rising 1% per day from 100.0 the RSI is 100,
\* the 10-day momentum exceeds 5%, the RSI rule and the momentum rule both
\* contribute buy signals, and the action is BUY.
C21_RsiAndMomentumBuy ==
    ScenarioAnalyzed =>
        /\ locals.rsi = Whole(100)
        /\ RGt(locals.momentum_10, Whole(5))
        /\ Emitted(locals, "buy", Num(85, 100))
        /\ Emitted(locals, "buy", Num(65, 100))
        /\ ret.recommendation = "BUY"

\* C21 as amended: on the 60 prices rising 1% per day from 100.0 the RSI is
\* 100, the 10-day momentum exceeds 5%, the RSI rule contributes a sell signal
\* and the momentum rule a buy signal, and the action is BUY, by 3 buy signals
\* against 1 sell signal.
C21_MomentumBuysRsiSells ==
    ScenarioAnalyzed =>
        /\ locals.rsi = Whole(100)
        /\ RGt(locals.momentum_10, Whole(5))
        /\ locals.signals[1] = "sell" /\ locals.confidences[1] = Num(85, 100)
        /\ ~Emitted(locals, "buy", Num(85, 100))
        /\ Emitted(locals, "buy", Num(65, 100))
        /\ locals.buy_count = 3
        /\ locals.sell_count = 1
        /\ ret.recommendation = "BUY"

C21_Witness ==
    /\ ScenarioAnalyzed
    /\ \A i \in 1..(Len(prices) - 1) : prices[i] < prices[i + 1]
    /\ Len(locals.signals) = 4
    /\ ret.recommendation = "BUY"

\* C22: the rationale builders never return an empty string (no clause at
\* all): with no indicator available they return one "insufficient data" clause.
C22_NeverEmptyRationale ==
    /\ call.op = "_generate_reasoning" => Len(ret) >= 1
    /\ call.op = "generate_ml_signals" => Len(ret.reasoning) >= 1
    /\ Recommended => Len(ret.reasoning) >= 1
    /\ (call.op = "analyze" /\ ~locals.isNone) => Len(ret.reasoning) >= 1

\* number of clauses of the rule in the reasoning
Clauses(reasoning, rule) ==
    Cardinality({i \in 1..Len(reasoning) : reasoning[i].rule = rule})

\* the place of a rule in the stated order of clauses
ClauseRank(rule) ==
    CASE rule = "rsi" -> 1 [] rule = "ma" -> 2 [] rule = "macd" -> 3
      [] rule = "bb" -> 4 [] rule = "momentum" -> 5 [] OTHER -> 6

\* C23: the reasoning of a Recommendation holds exactly one clause for each rule
\* that contributed a signal (RSI, moving averages, MACD, Bollinger, momentum)
\* and none for a rule that contributed no signal, in that order.
C23_ClausePerSignal ==
    Recommended =>
        /\ Clauses(ret.reasoning, "rsi") = Len(RsiRule(locals.rsi))
        /\ Clauses(ret.reasoning, "ma") =
              Len(MaCrossRule(locals.sma20, locals.sma50))
                 + Len(LongTrendRule(locals.sma50, locals.sma200))
        /\ Clauses(ret.reasoning, "macd") = Len(MacdRule(locals.macd_data))
        /\ Clauses(ret.reasoning, "bb") = Len(BollingerRule(locals.bb, locals.current_price))
        /\ Clauses(ret.reasoning, "momentum") = Len(MomentumRule(locals.momentum_10))
        /\ \A i \in 1..(Len(ret.reasoning) - 1) :
              ClauseRank(ret.reasoning[i].rule) <= ClauseRank(ret.reasoning[i + 1].rule)

\* C25: concurrent invocations of analyze_stock on one shared instance each
\* return what they return when run alone, in every interleaving, and no step
\* of an invocation writes to the instance or to a price list that was passed.
C25_EachAsAlone ==
    /\ [](\A t \in DOMAIN threads :
             threads[t].pc = "returned" =>
                threads[t].result = analyze_stock(agent.symbol, threads[t].prices).ret)
    /\ [][/\ agent' = agent
          /\ \A t \in DOMAIN threads : threads'[t].prices = threads[t].prices]_vars

\* two invocations on different price lists have both returned a recommendation
C25_Witness ==
    /\ DOMAIN threads = Threads
    /\ threads[1].prices # threads[2].prices
    /\ \A t \in {1, 2} :
          /\ threads[t].pc = "returned"
          /\ DOMAIN threads[t].result = RecommendationKeys
    /\ threads[1].result # threads[2].result

\* C26: the RSI printed in the reasoning of a Recommendation (1 decimal place),
\* read back as a number, equals the RSI of the indicator snapshot rounded to 1
\* decimal place.
C26_PrintedRsiRoundTrip ==
    Recommended =>
        \A i \in 1..Len(ret.reasoning) :
            ret.reasoning[i].rule = "rsi" =>
                /\ ~ret.indicators.rsi.isNone
                /\ ret.reasoning[i].shown = Round1(ret.indicators.rsi)

\* p[lo]^2 + ... + p[hi]^2, summed by halves
RECURSIVE PriceSquareSum(_, _, _)
PriceSquareSum(p, lo, hi) ==
    IF lo > hi THEN 0
    ELSE IF lo = hi THEN p[lo] * p[lo]
    ELSE PriceSquareSum(p, lo, (lo + hi) \div 2)
            + PriceSquareSum(p, (lo + hi) \div 2 + 1, hi)

\* the variance of the last 20 prices with the squares divided by N = 20:
\* (20 * sum of squares - square of the sum) / 20^2
StatedVariance(p) ==
    Num(20 * PriceSquareSum(p, Len(p) - 19, Len(p))
          - PriceSum(p, Len(p) - 19, Len(p)) * PriceSum(p, Len(p) - 19, Len(p)),
        20 * 20)

\* C27: on at least 20 prices both Bollinger implementations return
\* middle = SMA-20 and upper - middle = middle - lower = 2 x the population
\* standard deviation of the last 20 prices, hence lower <= middle <= upper.
C27_PopulationBands ==
    (/\ \/ call.op = "calculate_bollinger_bands" /\ call.period = 20
        \/ call.op = "TechnicalAnalyzer.calculate_bollinger_bands"
     /\ Len(prices) >= 20) =>
        /\ ~ret.isNone
        /\ ret.middle = Num(PriceSum(prices, Len(prices) - 19, Len(prices)), 20)
        /\ RSub(ret.upper, ret.middle) = RMul(Whole(2), RSqrt(StatedVariance(prices)))
        /\ RSub(ret.middle, ret.lower) = RMul(Whole(2), RSqrt(StatedVariance(prices)))
        /\ RLe(ret.lower, ret.middle)
        /\ RLe(ret.middle, ret.upper)

\* analyze ran generate_ml_signals on the indicators of at least 50 prices
LwAnalyzed == call.op = "analyze" /\ Len(prices) >= 50 /\ ~locals.isNone

\* the signals of confidence 0.7, which only the MACD rule emits
MacdRuleSignals ==
    {i \in 1..Len(locals.signals) : locals.confidence_scores[i] = Num(7, 10)}

Generated == call.op = "_generate_recommendation"

\* C29: BUY exactly when the combined score is above 0.3, SELL exactly when it
\* is below -0.3, HOLD otherwise; the confidence is the absolute combined score
\* and lies in [0, 0.88]; a technical signal of hold, or none, gives HOLD under
\* every sentiment.
C29_CombinedScoreRule ==
    Generated =>
        /\ ret.action = "BUY" <=> RGt(ret.combined_score, Num(3, 10))
        /\ ret.action = "SELL" <=> RLt(ret.combined_score, Num(-3, 10))
        /\ ret.action = "HOLD" <=>
              (RLe(Num(-3, 10), ret.combined_score) /\ RLe(ret.combined_score, Num(3, 10)))
        /\ \/ ret.confidence = ret.combined_score
           \/ ret.confidence = RSub(Whole(0), ret.combined_score)
        /\ RLe(Whole(0), ret.confidence)
        /\ RLe(ret.confidence, Num(88, 100))
        /\ ret.factors.technical_signal = "hold" => ret.action = "HOLD"

\* a hold signal under positive news: the score is 0.28 and the action HOLD
C29_Witness ==
    /\ Generated
    /\ ret.factors.technical_signal = "hold"
    /\ ret.factors.sentiment = "positive"
    /\ ret.combined_score = Num(28, 100)
    /\ ret.action = "HOLD"

\* the requests whose save succeeded (status 200)
Saved == {r \in DOMAIN requests : requests[r].statusCode = 200}

\* C30: every successful save adds one new record with outcome 'pending'
\* under a prediction_id no other record has, so after n successful saves the
\* table holds n records, one for each save, even when two saves of one symbol
\* fall in the same second.
C30_EverySaveAddsARecord ==
    /\ Cardinality(table) = Cardinality(Saved)
    /\ \A r \in Saved : requests[r].item \in table
    /\ \A item \in table : item.outcome = "pending"

=============================================================================
